---------------------------- MODULE Spec2Model ----------------------------
(***************************************************************************)
(* A model of the LinkWeaver plugin (toonchavez8/obsdn-linkweaver):        *)
(*   - the Batch Rewrite Engine (BatchOperations: batchReplaceLink,        *)
(*     renameAllInstances, updateLinksOnRename, previewChanges,            *)
(*     undoLastOperation and its undo stack), and                          *)
(*   - the Sequence Detection Engine (SequenceDetector.detectSequence,     *)
(*     the title parser and the natural-order comparator).                 *)
(*                                                                         *)
(* Text is modelled as a sequence of one-character strings.  The regular   *)
(* expressions of the source are modelled by their source text, parsed     *)
(* and run by a small backtracking matcher (RegExp, MatchAt, Search) that  *)
(* covers the syntax the source uses: literals, identity escapes, \d, \D,  *)
(* ".", character classes, capturing groups with an optional "?",          *)
(* greedy and lazy quantifiers, {n}, and the assertions ^ and $.           *)
(* Alternation, group repetition, ranges and back-references are not       *)
(* covered: evaluating them stops the check instead of guessing.           *)
(***************************************************************************)
EXTENDS Integers, Sequences, FiniteSets, TLC

---------------------------------------------------------------------------
(* Characters and small helpers on text                                    *)

Digits == {"0", "1", "2", "3", "4", "5", "6", "7", "8", "9"}

Letters == {"a", "b", "c", "d", "e", "f", "g", "h", "i", "j", "k", "l", "m",
            "n", "o", "p", "q", "r", "s", "t", "u", "v", "w", "x", "y", "z",
            "A", "B", "C", "D", "E", "F", "G", "H", "I", "J", "K", "L", "M",
            "N", "O", "P", "Q", "R", "S", "T", "U", "V", "W", "X", "Y", "Z"}

\* "." of a regular expression without the s flag excludes line terminators
LineTerminators == {"\n", "\r"}

DigitVal(c) ==
  CASE c = "0" -> 0 [] c = "1" -> 1 [] c = "2" -> 2 [] c = "3" -> 3
    [] c = "4" -> 4 [] c = "5" -> 5 [] c = "6" -> 6 [] c = "7" -> 7
    [] c = "8" -> 8 [] c = "9" -> 9

\* evaluating this stops TLC: used where the source's behaviour is outside
\* the syntax the matcher covers
NotModelled == CHOOSE x \in {} : TRUE

---------------------------------------------------------------------------
(* Regular expressions: new RegExp(source)                                 *)

ChAtom(neg, set) ==
  [k |-> "ch", neg |-> neg, set |-> set, min |-> 1, max |-> 1, inf |-> FALSE,
   lazy |-> FALSE, q |-> FALSE, g |-> 0, opt |-> FALSE]

MarkAtom(kind, g) ==
  [k |-> kind, neg |-> FALSE, set |-> {}, min |-> 1, max |-> 1, inf |-> FALSE,
   lazy |-> FALSE, q |-> FALSE, g |-> g, opt |-> FALSE]

\* \c outside a class
EscAtom(c) ==
  CASE c = "d" -> ChAtom(FALSE, Digits)
    [] c = "D" -> ChAtom(TRUE, Digits)
    [] c \in (Letters \cup Digits) \ {"d", "D"} -> NotModelled
    [] OTHER -> ChAtom(FALSE, {c})

\* index of the "]" that closes the class whose members start at i; 0: none
RECURSIVE ClassEnd(_, _)
ClassEnd(src, i) ==
  IF i > Len(src) THEN 0
  ELSE IF src[i] = "\\" THEN ClassEnd(src, i + 2)
  ELSE IF src[i] = "]" THEN i
  ELSE ClassEnd(src, i + 1)

\* the members of a class, src[i..j]
RECURSIVE ClassSet(_, _, _)
ClassSet(src, i, j) ==
  IF i > j THEN {}
  ELSE IF src[i] = "\\"
       THEN (IF src[i + 1] = "d" THEN Digits
             ELSE IF src[i + 1] \in Letters \cup Digits THEN NotModelled
             ELSE {src[i + 1]}) \cup ClassSet(src, i + 2, j)
  ELSE IF src[i] = "-" /\ i < j THEN NotModelled
  ELSE {src[i]} \cup ClassSet(src, i + 1, j)

\* number of digits of src from i on
RECURSIVE DigitRun(_, _)
DigitRun(src, i) ==
  IF i <= Len(src) /\ src[i] \in Digits THEN 1 + DigitRun(src, i + 1) ELSE 0

RECURSIVE DecimalValue(_, _, _)
DecimalValue(src, i, n) ==
  IF n = 0 THEN 0
  ELSE 10 * DecimalValue(src, i, n - 1) + DigitVal(src[i + n - 1])

ParseError(ps) == [ps EXCEPT !.err = TRUE]

PushAtom(ps, a, next) ==
  [ps EXCEPT !.atoms = Append(@, a), !.i = next]

\* a quantifier applied to the last atom: "nothing to repeat" is a SyntaxError
Quantify(ps, min, max, inf, next) ==
  LET n == Len(ps.atoms) IN
  IF n = 0 THEN ParseError(ps)
  ELSE LET a == ps.atoms[n] IN
       IF a.k = "ch" /\ ~a.q
       THEN [ps EXCEPT !.atoms[n] =
               [a EXCEPT !.min = min, !.max = max, !.inf = inf, !.q = TRUE],
             !.i = next]
       ELSE IF a.k = "ch" /\ a.q /\ ~a.lazy /\ min = 0 /\ max = 1
       THEN [ps EXCEPT !.atoms[n] = [a EXCEPT !.lazy = TRUE], !.i = next]
       ELSE IF a.k = "close" /\ ~a.q /\ min = 0 /\ max = 1 /\ ~inf
       THEN LET o == CHOOSE k \in 1..n :
                       ps.atoms[k].k = "open" /\ ps.atoms[k].g = a.g IN
            [ps EXCEPT !.atoms[o] = [@ EXCEPT !.opt = TRUE],
                       !.atoms[n] = [a EXCEPT !.q = TRUE], !.i = next]
       ELSE IF a.k = "close" THEN NotModelled
       ELSE ParseError(ps)

RECURSIVE ParseFrom(_, _)
ParseFrom(src, ps) ==
  IF ps.err THEN ps
  ELSE IF ps.i > Len(src) THEN [ps EXCEPT !.err = (ps.open # <<>>)]
  ELSE
    LET c == src[ps.i]
        i == ps.i
    IN
    CASE c = "\\" ->
           IF i = Len(src) THEN ParseError(ps)
           ELSE ParseFrom(src, PushAtom(ps, EscAtom(src[i + 1]), i + 2))
      [] c = "." ->
           ParseFrom(src, PushAtom(ps, ChAtom(TRUE, LineTerminators), i + 1))
      [] c = "[" ->
           LET neg  == i < Len(src) /\ src[i + 1] = "^"
               from == IF neg THEN i + 2 ELSE i + 1
               end  == ClassEnd(src, from)
           IN IF end = 0 THEN ParseError(ps)
              ELSE ParseFrom(src,
                     PushAtom(ps, ChAtom(neg, ClassSet(src, from, end - 1)),
                              end + 1))
      [] c = "(" ->
           IF i < Len(src) /\ src[i + 1] = "?" THEN NotModelled
           ELSE ParseFrom(src,
                  [PushAtom(ps, MarkAtom("open", ps.ng + 1), i + 1)
                     EXCEPT !.ng = ps.ng + 1,
                            !.open = <<ps.ng + 1>> \o ps.open])
      [] c = ")" ->
           IF ps.open = <<>> THEN ParseError(ps)
           ELSE ParseFrom(src,
                  [PushAtom(ps, MarkAtom("close", Head(ps.open)), i + 1)
                     EXCEPT !.open = Tail(ps.open)])
      [] c = "*" -> ParseFrom(src, Quantify(ps, 0, 0, TRUE, i + 1))
      [] c = "+" -> ParseFrom(src, Quantify(ps, 1, 0, TRUE, i + 1))
      [] c = "?" -> ParseFrom(src, Quantify(ps, 0, 1, FALSE, i + 1))
      [] c = "{" ->
           LET n == DigitRun(src, i + 1) IN
           IF n > 0 /\ i + n + 1 <= Len(src) /\ src[i + n + 1] = "}"
           THEN LET v == DecimalValue(src, i + 1, n) IN
                ParseFrom(src, Quantify(ps, v, v, FALSE, i + n + 2))
           ELSE IF n > 0 /\ i + n + 1 <= Len(src) /\ src[i + n + 1] = ","
           THEN NotModelled
           ELSE ParseFrom(src, PushAtom(ps, ChAtom(FALSE, {c}), i + 1))
      [] c = "^" -> ParseFrom(src, PushAtom(ps, MarkAtom("bos", 0), i + 1))
      [] c = "$" -> ParseFrom(src, PushAtom(ps, MarkAtom("eos", 0), i + 1))
      [] c = "|" -> NotModelled
      [] OTHER -> ParseFrom(src, PushAtom(ps, ChAtom(FALSE, {c}), i + 1))

\* new RegExp(src): ok = FALSE stands for the SyntaxError it throws
RegExp(src) ==
  LET ps == ParseFrom(src, [atoms |-> <<>>, i |-> 1, ng |-> 0,
                            open |-> <<>>, err |-> FALSE])
  IN [ok |-> ~ps.err, atoms |-> ps.atoms, ng |-> ps.ng]

---------------------------------------------------------------------------
(* Matching                                                                *)

NoMatch == [ok |-> FALSE, start |-> 0, end |-> 0, caps |-> <<>>]

NoCapture == [s |-> 0, e |-> 0]

CharMatches(a, c) == (c \in a.set) # a.neg

\* how many characters from pos on the atom can take
RECURSIVE RunLen(_, _, _, _)
RunLen(a, t, pos, n) ==
  IF pos + n <= Len(t) /\ (a.inf \/ n < a.max) /\ CharMatches(a, t[pos + n])
  THEN RunLen(a, t, pos, n + 1)
  ELSE n

CloseIndex(atoms, g) ==
  CHOOSE k \in 1..Len(atoms) : atoms[k].k = "close" /\ atoms[k].g = g

\* captures of the groups inside a skipped optional group are undefined
SkipCaps(atoms, g, caps) ==
  LET o == CHOOSE k \in 1..Len(atoms) :
             atoms[k].k = "open" /\ atoms[k].g = g
      inner == {atoms[k].g : k \in o..CloseIndex(atoms, g)}
  IN [j \in 1..Len(caps) |-> IF j \in inner THEN NoCapture ELSE caps[j]]

RECURSIVE MatchAt(_, _, _, _, _), TryCount(_, _, _, _, _, _, _)
\* the backtracking matcher: atoms[k..] against t from pos on
MatchAt(atoms, t, k, pos, caps) ==
  IF k > Len(atoms)
  THEN [ok |-> TRUE, start |-> 0, end |-> pos, caps |-> caps]
  ELSE
    LET a == atoms[k] IN
    CASE a.k = "ch" ->
           LET avail == RunLen(a, t, pos, 0) IN
           IF avail < a.min THEN NoMatch
           ELSE TryCount(atoms, t, k, pos, caps,
                         IF a.lazy THEN a.min ELSE avail, avail)
      [] a.k = "open" ->
           LET r == MatchAt(atoms, t, k + 1, pos,
                            [caps EXCEPT ![a.g] = [s |-> pos, e |-> 0]])
           IN IF r.ok \/ ~a.opt THEN r
              ELSE MatchAt(atoms, t, CloseIndex(atoms, a.g) + 1, pos,
                           SkipCaps(atoms, a.g, caps))
      [] a.k = "close" ->
           MatchAt(atoms, t, k + 1, pos, [caps EXCEPT ![a.g].e = pos])
      [] a.k = "bos" ->
           IF pos = 1 THEN MatchAt(atoms, t, k + 1, pos, caps) ELSE NoMatch
      [] a.k = "eos" ->
           IF pos = Len(t) + 1 THEN MatchAt(atoms, t, k + 1, pos, caps)
           ELSE NoMatch

\* atom k takes n characters; on failure a greedy atom gives one back and a
\* lazy one takes one more
TryCount(atoms, t, k, pos, caps, n, avail) ==
  LET r == MatchAt(atoms, t, k + 1, pos + n, caps) IN
  IF r.ok THEN r
  ELSE IF atoms[k].lazy
       THEN IF n < avail THEN TryCount(atoms, t, k, pos, caps, n + 1, avail)
            ELSE NoMatch
       ELSE IF n > atoms[k].min
            THEN TryCount(atoms, t, k, pos, caps, n - 1, avail)
            ELSE NoMatch

\* the leftmost match of re in t starting at from or later
RECURSIVE Search(_, _, _)
Search(re, t, from) ==
  IF from > Len(t) + 1 THEN NoMatch
  ELSE LET r == MatchAt(re.atoms, t, 1, from,
                        [j \in 1..re.ng |-> NoCapture])
       IN IF r.ok THEN [r EXCEPT !.start = from]
          ELSE Search(re, t, from + 1)

\* the text of capture n of match m ("" when the group did not take part)
Capture(t, m, n) ==
  IF m.caps[n].s = 0 THEN <<>> ELSE SubSeq(t, m.caps[n].s, m.caps[n].e - 1)

Matched(t, m) == SubSeq(t, m.start, m.end - 1)

---------------------------------------------------------------------------
(* String.prototype.replace with a string replacement                     *)

\* GetSubstitution: $$, $&, $`, $', $n and $nn in the replacement text
RECURSIVE GetSubstitution(_, _, _, _)
GetSubstitution(tmpl, i, t, m) ==
  IF i > Len(tmpl) THEN <<>>
  ELSE IF tmpl[i] # "$" \/ i = Len(tmpl)
       THEN <<tmpl[i]>> \o GetSubstitution(tmpl, i + 1, t, m)
  ELSE
    LET c  == tmpl[i + 1]
        ng == Len(m.caps)
        d1 == IF c \in Digits THEN DigitVal(c) ELSE 0
        two == i + 2 <= Len(tmpl) /\ c \in Digits /\ tmpl[i + 2] \in Digits
        nn == IF two THEN 10 * d1 + DigitVal(tmpl[i + 2]) ELSE 0
    IN
    CASE c = "$" -> <<"$">> \o GetSubstitution(tmpl, i + 2, t, m)
      [] c = "&" -> Matched(t, m) \o GetSubstitution(tmpl, i + 2, t, m)
      [] c = "`" -> SubSeq(t, 1, m.start - 1)
                      \o GetSubstitution(tmpl, i + 2, t, m)
      [] c = "'" -> SubSeq(t, m.end, Len(t))
                      \o GetSubstitution(tmpl, i + 2, t, m)
      [] c \in Digits /\ two /\ nn >= 1 /\ nn <= ng ->
           Capture(t, m, nn) \o GetSubstitution(tmpl, i + 3, t, m)
      [] c \in Digits /\ ~(two /\ nn >= 1 /\ nn <= ng)
           /\ d1 >= 1 /\ d1 <= ng ->
           Capture(t, m, d1) \o GetSubstitution(tmpl, i + 2, t, m)
      [] OTHER -> <<"$">> \o GetSubstitution(tmpl, i + 1, t, m)

\* str.replace(re, tmpl) with the g flag: every match, left to right
RECURSIVE ReplaceAll(_, _, _, _)
ReplaceAll(t, re, tmpl, from) ==
  LET m == Search(re, t, from) IN
  IF ~m.ok THEN SubSeq(t, from, Len(t))
  ELSE SubSeq(t, from, m.start - 1) \o GetSubstitution(tmpl, 1, t, m)
       \o (IF m.end > m.start THEN ReplaceAll(t, re, tmpl, m.end)
           ELSE IF m.start > Len(t) THEN <<>>
           ELSE <<t[m.start]>> \o ReplaceAll(t, re, tmpl, m.start + 1))

\* str.replace(re, tmpl) without the g flag: the first match only
ReplaceFirst(t, re, tmpl) ==
  LET m == Search(re, t, 1) IN
  IF ~m.ok THEN t
  ELSE SubSeq(t, 1, m.start - 1) \o GetSubstitution(tmpl, 1, t, m)
       \o SubSeq(t, m.end, Len(t))

\* the number of matches a while (re.exec(t) !== null) loop counts
RECURSIVE CountMatches(_, _, _)
CountMatches(t, re, from) ==
  LET m == Search(re, t, from) IN
  IF ~m.ok THEN 0
  ELSE 1 + CountMatches(t, re, IF m.end > m.start THEN m.end ELSE m.end + 1)

---------------------------------------------------------------------------
(* BatchOperations: the text rewriting of batchReplaceLink                 *)

\* the characters escapeRegex looks for: /[.*+?^${}()|[\]\\]/g
EscapeClassSource ==
  <<"[", ".", "*", "+", "?", "^", "$", "{", "}", "(", ")", "|", "[",
    "\\", "]", "\\", "\\", "]">>

\* String.raw`\\$&`: two backslash characters, then $&
EscapeReplacement == <<"\\", "\\", "$", "&">>

EscapeRegExp == RegExp(EscapeClassSource)

escapeRegex(str) == ReplaceAll(str, EscapeRegExp, EscapeReplacement, 1)

\* String.raw`\[\[${escapeRegex(oldLink)}(\|[^\]]+)?\]\]`
WikiLinkSource(oldLink) ==
  <<"\\", "[", "\\", "[">> \o escapeRegex(oldLink)
    \o <<"(", "\\", "|", "[", "^", "\\", "]", "]", "+", ")", "?",
         "\\", "]", "\\", "]">>

\* String.raw`\[([^\]]+)\]\(${escapeRegex(oldLink)}\)`
MdLinkSource(oldLink) ==
  <<"\\", "[", "(", "[", "^", "\\", "]", "]", "+", ")", "\\", "]", "\\", "(">>
    \o escapeRegex(oldLink) \o <<"\\", ")">>

\* `[[${newLink}$1]]`
WikiReplacement(newLink) == <<"[", "[">> \o newLink \o <<"$", "1", "]", "]">>

\* `[$1](${newLink})`
MdReplacement(newLink) == <<"[", "$", "1", "]", "(">> \o newLink \o <<")">>

\* the body of the try block up to the comparison: threw stands for the
\* SyntaxError of new RegExp
ReplaceLinks(content, wikiLinkRegex, mdLinkRegex, newLink) ==
  IF ~wikiLinkRegex.ok \/ ~mdLinkRegex.ok
  THEN [threw |-> TRUE, newContent |-> content]
  ELSE [threw |-> FALSE,
        newContent |->
          ReplaceAll(ReplaceAll(content, wikiLinkRegex,
                                WikiReplacement(newLink), 1),
                     mdLinkRegex, MdReplacement(newLink), 1)]

RewriteLinks(content, oldLink, newLink) ==
  ReplaceLinks(content, RegExp(WikiLinkSource(oldLink)),
               RegExp(MdLinkSource(oldLink)), newLink)

countLinkOccurrences(content, link) ==
  CountMatches(content, RegExp(WikiLinkSource(link)), 1)
    + CountMatches(content, RegExp(MdLinkSource(link)), 1)

\* path.split('/').pop() || path
RECURSIVE LastSegment(_, _)
LastSegment(path, i) ==
  IF i = 0 THEN path
  ELSE IF path[i] = "/" THEN SubSeq(path, i + 1, Len(path))
  ELSE LastSegment(path, i - 1)

MdExtensionSource == <<"\\", ".", "m", "d", "$">>

MdExtensionRegExp == RegExp(MdExtensionSource)

getBaseName(path) ==
  LET seg  == LastSegment(path, Len(path))
      name == IF seg = <<>> THEN path ELSE seg
  IN ReplaceFirst(name, MdExtensionRegExp, <<>>)

---------------------------------------------------------------------------
(* Inputs: link names, documents and paths                                 *)

LinkA == <<"A">>
LinkB == <<"B">>
LinkC == <<"C">>
\* A.B
LinkDot == <<"A", ".", "B">>
\* A(
LinkParen == <<"A", "(">>
\* B$
LinkDollar == <<"B", "$">>

\* [[A]]
DocWiki == <<"[", "[", "A", "]", "]">>
\* [[A|d]] [d](A)
DocBoth == <<"[", "[", "A", "|", "d", "]", "]", " ", "[", "d", "]", "(", "A", ")">>
\* [[AB]] [d](BA): no link to A or to B
DocNear == <<"[", "[", "A", "B", "]", "]", " ", "[", "d", "]", "(", "B", "A", ")">>
\* [[B]] x
DocB == <<"[", "[", "B", "]", "]", " ", "x">>
\* [[A|x[[A]]: a link inside what the pattern takes for a display text
DocNested == <<"[", "[", "A", "|", "x", "[", "[", "A", "]", "]">>
\* [[A.B]] [[A\xB]]
DocDot == <<"[", "[", "A", ".", "B", "]", "]", " ", "[", "[", "A", "\\", "x", "B", "]", "]">>

\* notes/A.md
PathA == <<"n", "o", "t", "e", "s", "/", "A", ".", "m", "d">>
\* B.md
PathB == <<"B", ".", "m", "d">>

\* documents and links without regular-expression or replacement characters
StartDocs == {DocBoth, DocB}
PlainDocs == {DocWiki, DocBoth, DocNear, DocB}
PlainOld == {LinkA, LinkB}
PlainNew == {LinkB, LinkC}
PlainPairs == {<<LinkA, LinkB>>, <<LinkB, LinkC>>}

\* links that go back and forth, so that batches can follow one another
UndoDocs == {DocWiki, DocB}
UndoLinks == {LinkA, LinkB}

\* documents and links with such characters
AllDocs == PlainDocs \cup {DocNested, DocDot}
AllOld == PlainOld \cup {LinkDot, LinkParen}
AllNew == PlainNew \cup {LinkDollar}

TableOld == AllOld \cup UndoLinks
TableNew == AllNew \cup UndoLinks

---------------------------------------------------------------------------
(* Title parser: getBasename, parseNumericPattern, parseDatePattern        *)

\* /\.[^/.]+$/
BasenameSource == <<"\\", ".", "[", "^", "/", ".", "]", "+", "$">>

BasenameRegExp == RegExp(BasenameSource)

\* filename.replace(/\.[^/.]+$/, '')
getBasename(filename) == ReplaceFirst(filename, BasenameRegExp, <<>>)

\* a JavaScript number that may be NaN
NaN == [nan |-> TRUE, val |-> 0]

Number(v) == [nan |-> FALSE, val |-> v]

RECURSIVE HasDigit(_, _)
HasDigit(str, i) ==
  IF i > Len(str) THEN FALSE
  ELSE IF str[i] \in Digits THEN TRUE
  ELSE HasDigit(str, i + 1)

\* parseInt(str) of a text that starts with a digit or holds none (the texts
\* the source passes to it: a run of digits, a run of non-digits, or '')
parseInt(str) ==
  IF DigitRun(str, 1) > 0 THEN Number(DecimalValue(str, 1, DigitRun(str, 1)))
  ELSE IF HasDigit(str, 1) THEN NotModelled
  ELSE NaN

\* /^(\d+)$/
PureNumberSource == <<"^", "(", "\\", "d", "+", ")", "$">>

\* /^(.+?)(\d+)$/
PrefixNumberSource ==
  <<"^", "(", ".", "+", "?", ")", "(", "\\", "d", "+", ")", "$">>

\* /^(.+?)(\d+)(.+)$/
ComplexNumberSource ==
  <<"^", "(", ".", "+", "?", ")", "(", "\\", "d", "+", ")",
    "(", ".", "+", ")", "$">>

PureNumberRegExp == RegExp(PureNumberSource)

PrefixNumberRegExp == RegExp(PrefixNumberSource)

ComplexNumberRegExp == RegExp(ComplexNumberSource)

\* what parseNumericPattern returns: ok = FALSE stands for null; shape tells
\* which of its three patterns matched
NoParsedPattern ==
  [ok |-> FALSE, shape |-> "none", prefix |-> <<>>, number |-> NaN,
   suffix |-> <<>>, fullMatch |-> <<>>]

ParsedPure(basename, m) ==
  [ok |-> TRUE, shape |-> "pure", prefix |-> <<>>,
   number |-> parseInt(Capture(basename, m, 1)), suffix |-> <<>>,
   fullMatch |-> Matched(basename, m)]

ParsedPrefix(basename, m) ==
  [ok |-> TRUE, shape |-> "prefix", prefix |-> Capture(basename, m, 1),
   number |-> parseInt(Capture(basename, m, 2)), suffix |-> <<>>,
   fullMatch |-> Matched(basename, m)]

ParsedComplex(basename, m) ==
  [ok |-> TRUE, shape |-> "complex", prefix |-> Capture(basename, m, 1),
   number |-> parseInt(Capture(basename, m, 2)),
   suffix |-> Capture(basename, m, 3), fullMatch |-> Matched(basename, m)]

NumericOf(basename, pureNumberMatch, prefixMatch, complexMatch) ==
  IF pureNumberMatch.ok THEN ParsedPure(basename, pureNumberMatch)
  ELSE IF prefixMatch.ok THEN ParsedPrefix(basename, prefixMatch)
  ELSE IF complexMatch.ok THEN ParsedComplex(basename, complexMatch)
  ELSE NoParsedPattern

parseNumericPattern(basename) ==
  NumericOf(basename, Search(PureNumberRegExp, basename, 1),
            Search(PrefixNumberRegExp, basename, 1),
            Search(ComplexNumberRegExp, basename, 1))

\* /(\d{4})-(\d{2})-(\d{2})/
IsoDateSource ==
  <<"(", "\\", "d", "{", "4", "}", ")", "-", "(", "\\", "d", "{", "2", "}",
    ")", "-", "(", "\\", "d", "{", "2", "}", ")">>

\* /(\d{4})(\d{2})(\d{2})/
CompactDateSource ==
  <<"(", "\\", "d", "{", "4", "}", ")", "(", "\\", "d", "{", "2", "}", ")",
    "(", "\\", "d", "{", "2", "}", ")">>

IsoDateRegExp == RegExp(IsoDateSource)

CompactDateRegExp == RegExp(CompactDateSource)

IsLeapYear(y) == (y % 4 = 0 /\ y % 100 # 0) \/ y % 400 = 0

DaysInMonth(y, m) ==
  IF m = 2 THEN (IF IsLeapYear(y) THEN 29 ELSE 28)
  ELSE IF m \in {4, 6, 9, 11} THEN 30
  ELSE 31

\* day number of a civil date, 0 for 1970-01-01
DaysFromCivil(y, m, d) ==
  LET yy  == IF m <= 2 THEN y - 1 ELSE y
      era == yy \div 400
      yoe == yy - era * 400
      mp  == IF m > 2 THEN m - 3 ELSE m + 9
      doy == (153 * mp + 2) \div 5 + d - 1
      doe == yoe * 365 + yoe \div 4 - yoe \div 100 + doy
  IN era * 146097 + doe - 719468

InvalidDate == [ok |-> FALSE, time |-> 0]

\* new Date("YYYY-MM-DD"): UTC midnight of that day, an invalid Date when the
\* month is not one of 01..12 or the day is 00 or above 31.  getTime() is
\* 86400000 times the day number: time keeps the day number.  A day above
\* the month's length but not above 31 is left to the implementation by the
\* language and is not modelled
DateOf(y, m, d) ==
  IF m < 1 \/ m > 12 \/ d < 1 \/ d > 31 THEN InvalidDate
  ELSE IF d > DaysInMonth(y, m) THEN NotModelled
  ELSE [ok |-> TRUE, time |-> DaysFromCivil(y, m, d)]

DateOfMatch(basename, m) ==
  IF ~m.ok THEN InvalidDate
  ELSE DateOf(parseInt(Capture(basename, m, 1)).val,
              parseInt(Capture(basename, m, 2)).val,
              parseInt(Capture(basename, m, 3)).val)

\* the ISO form first, the compact form when it gives no valid date
FirstValidDate(isoDate, compactDate) ==
  IF isoDate.ok THEN isoDate ELSE compactDate

parseDatePattern(basename) ==
  FirstValidDate(DateOfMatch(basename, Search(IsoDateRegExp, basename, 1)),
                 DateOfMatch(basename, Search(CompactDateRegExp, basename, 1)))
---------------------------------------------------------------------------
(* Natural order comparator: naturalSort, naturalSortArray                 *)

\* the two alternatives of /(\d+)|(\D+)/g
DigitRunSource == <<"(", "\\", "d", "+", ")">>

NonDigitRunSource == <<"(", "\\", "D", "+", ")">>

DigitRunRegExp == RegExp(DigitRunSource)

NonDigitRunRegExp == RegExp(NonDigitRunSource)

\* the match of an alternation: the leftmost start wins, and at one start
\* the first alternative
Alternation(first, second) ==
  IF ~first.ok THEN second
  ELSE IF ~second.ok THEN first
  ELSE IF first.start <= second.start THEN first
  ELSE second

\* str.match(/(\d+)|(\D+)/g) || []: the matched texts, left to right
RECURSIVE MatchParts(_, _), PartsAfter(_, _)
PartsAfter(str, m) ==
  IF ~m.ok THEN <<>>
  ELSE <<Matched(str, m)>> \o MatchParts(str, m.end)

MatchParts(str, from) ==
  PartsAfter(str, Alternation(Search(DigitRunRegExp, str, from),
                              Search(NonDigitRunRegExp, str, from)))

\* the characters of the model's names in the order of the root collation:
\* space and punctuation, digits, letters
CollationOrder ==
  <<" ", "-", ".", "0", "1", "2", "3", "4", "5", "6", "7", "8", "9",
    "a", "b", "c", "d", "e", "f", "g", "h", "i", "j", "k", "l", "m",
    "n", "o", "p", "q", "r", "s", "t", "u", "v", "w", "x", "y", "z">>

UpperCase ==
  <<"A", "B", "C", "D", "E", "F", "G", "H", "I", "J", "K", "L", "M",
    "N", "O", "P", "Q", "R", "S", "T", "U", "V", "W", "X", "Y", "Z">>

LowerCase ==
  <<"a", "b", "c", "d", "e", "f", "g", "h", "i", "j", "k", "l", "m",
    "n", "o", "p", "q", "r", "s", "t", "u", "v", "w", "x", "y", "z">>

IsUpper(c) == \E i \in 1..Len(UpperCase) : UpperCase[i] = c

ToLower(c) ==
  IF IsUpper(c)
  THEN LowerCase[CHOOSE i \in 1..Len(UpperCase) : UpperCase[i] = c]
  ELSE c

\* the primary weight of a character; a character outside CollationOrder
\* has none and stops the check
CollationWeight(c) ==
  CHOOSE i \in 1..Len(CollationOrder) : CollationOrder[i] = ToLower(c)

\* first level: the weights, character by character; a prefix comes first
RECURSIVE ComparePrimary(_, _, _)
ComparePrimary(a, b, i) ==
  IF i > Len(a) /\ i > Len(b) THEN 0
  ELSE IF i > Len(a) THEN -1
  ELSE IF i > Len(b) THEN 1
  ELSE IF CollationWeight(a[i]) < CollationWeight(b[i]) THEN -1
  ELSE IF CollationWeight(a[i]) > CollationWeight(b[i]) THEN 1
  ELSE ComparePrimary(a, b, i + 1)

\* last level, for texts equal at the first: lower case before upper case
RECURSIVE CompareCase(_, _, _)
CompareCase(a, b, i) ==
  IF i > Len(a) THEN 0
  ELSE IF a[i] = b[i] THEN CompareCase(a, b, i + 1)
  ELSE IF IsUpper(b[i]) THEN -1
  ELSE 1

\* a.localeCompare(b) in the host's default locale
localeCompare(a, b) ==
  IF ComparePrimary(a, b, 1) # 0 THEN ComparePrimary(a, b, 1)
  ELSE CompareCase(a, b, 1)

\* aParts[i] || '' with i counted from 1
PartAt(parts, i) == IF i <= Len(parts) THEN parts[i] ELSE <<>>

\* the loop of naturalSort from part i on
RECURSIVE CompareParts(_, _, _)
CompareParts(aParts, bParts, i) ==
  IF i > Len(aParts) /\ i > Len(bParts) THEN 0
  ELSE
    LET aPart == PartAt(aParts, i)
        bPart == PartAt(bParts, i)
        aNum  == parseInt(aPart)
        bNum  == parseInt(bPart)
    IN IF ~aNum.nan /\ ~bNum.nan
       THEN IF aNum.val # bNum.val THEN aNum.val - bNum.val
            ELSE CompareParts(aParts, bParts, i + 1)
       ELSE IF aPart # bPart THEN localeCompare(aPart, bPart)
            ELSE CompareParts(aParts, bParts, i + 1)

\* faulty variant: the loop runs over the parts of a only
naturalSortOverA(a, b) ==
  CompareParts(MatchParts(a, 1),
               [i \in {j \in DOMAIN MatchParts(b, 1) :
                         j <= Len(MatchParts(a, 1))} |-> MatchParts(b, 1)[i]],
               1)

naturalSort(a, b) == CompareParts(MatchParts(a, 1), MatchParts(b, 1), 1)

\* Array.prototype.sort: a stable sort, here by insertion; compare[x, y] is
\* what the comparator returns for x and y
RECURSIVE InsertSorted(_, _, _, _)
InsertSorted(sorted, x, compare, j) ==
  IF j >= 1 /\ compare[sorted[j], x] > 0
  THEN InsertSorted(sorted, x, compare, j - 1)
  ELSE SubSeq(sorted, 1, j) \o <<x>> \o SubSeq(sorted, j + 1, Len(sorted))

RECURSIVE SortFrom(_, _, _, _)
SortFrom(sorted, arr, compare, i) ==
  IF i > Len(arr) THEN sorted
  ELSE SortFrom(InsertSorted(sorted, arr[i], compare, Len(sorted)),
                arr, compare, i + 1)

Sort(arr, compare) == SortFrom(<<>>, arr, compare, 1)
---------------------------------------------------------------------------
(* Inputs of the sequence detection: file names, folders, custom patterns  *)

\* N2.md, N10.md, N3.md, M3.md, x.md
NameN2 == <<"N", "2", ".", "m", "d">>
NameN10 == <<"N", "1", "0", ".", "m", "d">>
NameN3 == <<"N", "3", ".", "m", "d">>
NameM3 == <<"M", "3", ".", "m", "d">>
NameX == <<"x", ".", "m", "d">>
\* 7.md, 12.md
Name7 == <<"7", ".", "m", "d">>
Name12 == <<"1", "2", ".", "m", "d">>
\* 2025-01-15.md, 2025-01-20.md, 2025-02-01.md
NameJan15 == <<"2", "0", "2", "5", "-", "0", "1", "-", "1", "5", ".", "m", "d">>
NameJan20 == <<"2", "0", "2", "5", "-", "0", "1", "-", "2", "0", ".", "m", "d">>
NameFeb01 == <<"2", "0", "2", "5", "-", "0", "2", "-", "0", "1", ".", "m", "d">>
\* N1.png: a file that is not a note
NameN1Png == <<"N", "1", ".", "p", "n", "g">>

\* N02.md, whose number is that of N2.md, and n2.md
NameN02 == <<"N", "0", "2", ".", "m", "d">>
NameLowerN2 == <<"n", "2", ".", "m", "d">>

Names ==
  {NameN2, NameN10, NameN3, NameM3, NameX, Name7, Name12, NameJan15,
   NameJan20, NameFeb01, NameN1Png, NameN02, NameLowerN2}

\* the texts the comparator is called with: the names, a title without
\* extension and the empty text
SortTexts == Names \cup {<<"N", "2">>, <<>>}

\* the folders notes and archive
FolderNotes == <<"n", "o", "t", "e", "s">>
FolderArchive == <<"a", "r", "c", "h", "i", "v", "e">>

Folders == {FolderNotes, FolderArchive}

\* DEFAULT_SETTINGS.customPatterns
SimpleNumericPattern ==
  [name |-> <<"S", "i", "m", "p", "l", "e", " ", "N", "u", "m", "e", "r",
              "i", "c">>,
   regex |-> <<"(", "\\", "d", "+", ")">>, enabled |-> TRUE]

PrefixedNumericPattern ==
  [name |-> <<"P", "r", "e", "f", "i", "x", "e", "d", " ", "N", "u", "m",
              "e", "r", "i", "c">>,
   regex |-> <<"^", "(", ".", "+", "?", ")", "(", "\\", "d", "+", ")", "$">>,
   enabled |-> TRUE]

DateIsoPattern ==
  [name |-> <<"D", "a", "t", "e", " ", "I", "S", "O">>,
   regex |-> <<"\\", "d", "{", "4", "}", "-", "\\", "d", "{", "2", "}", "-",
               "\\", "d", "{", "2", "}">>,
   enabled |-> TRUE]

DefaultPatterns ==
  <<SimpleNumericPattern, PrefixedNumericPattern, DateIsoPattern>>

\* a pattern of the user that does not compile: (
BrokenPattern ==
  [name |-> <<"B", "r", "o", "k", "e", "n">>, regex |-> <<"(">>,
   enabled |-> TRUE]

\* a pattern of the user: ^(.)
LetterPattern ==
  [name |-> <<"L", "e", "t", "t", "e", "r">>,
   regex |-> <<"^", "(", ".", ")">>, enabled |-> TRUE]

\* the settings the model starts from
PatternSettings ==
  {<<>>, DefaultPatterns,
   <<BrokenPattern, [SimpleNumericPattern EXCEPT !.enabled = FALSE],
     LetterPattern>>}

PatternSources ==
  UNION {{s[i].regex : i \in DOMAIN s} : s \in PatternSettings}

---------------------------------------------------------------------------
(* What the parser and the comparator give on these names, computed once   *)

TitleRow(basename) ==
  [basename |-> basename,
   numeric |-> parseNumericPattern(basename),
   date |-> parseDatePattern(basename)]

TitleTable == [n \in Names |-> TitleRow(getBasename(n))]

CompareTable == [a \in SortTexts, b \in SortTexts |-> naturalSort(a, b)]

\* what createMatcher's extract makes of a match: the first capture is the
\* prefix and the third the suffix
CustomExtract(basename, m) ==
  [ok |-> m.ok,
   prefix |-> IF m.ok /\ Len(m.caps) >= 1 THEN Capture(basename, m, 1)
              ELSE <<>>,
   suffix |-> IF m.ok /\ Len(m.caps) >= 3 THEN Capture(basename, m, 3)
              ELSE <<>>]

\* new RegExp(pattern.regex) and, for every name, the match of its basename
PatternRow(regex) ==
  [ok |-> regex.ok,
   match |-> [n \in Names |->
                IF regex.ok
                THEN CustomExtract(getBasename(n),
                                   Search(regex, getBasename(n), 1))
                ELSE CustomExtract(<<>>, NoMatch)]]

PatternTable == [s \in PatternSources |-> PatternRow(RegExp(s))]

\* the three tables, handed to the detector by the handlers
Tables ==
  [title |-> TitleTable, compare |-> CompareTable, pattern |-> PatternTable]
---------------------------------------------------------------------------
(* SequenceDetector                                                        *)

\* bound of the model: the files the vault can hold over a run
MaxNotes == 3

NoteIds == 1..MaxNotes

\* a file the host has not created yet, and one it has deleted
NoNote == [st |-> "none", folder |-> <<>>, name |-> <<>>]

Note(folder, name) == [st |-> "live", folder |-> folder, name |-> name]

\* file.path
PathOf(folder, name) == folder \o <<"/">> \o name

Path(ns, f) == PathOf(ns[f].folder, ns[f].name)

\* file.extension === 'md'
IsMarkdown(name) ==
  Len(name) >= 3 /\ SubSeq(name, Len(name) - 2, Len(name)) = <<".", "m", "d">>

\* vault.getMarkdownFiles(), in the order the host keeps its files
RECURSIVE MarkdownFilesFrom(_, _)
MarkdownFilesFrom(ns, f) ==
  IF f > MaxNotes THEN <<>>
  ELSE (IF ns[f].st = "live" /\ IsMarkdown(ns[f].name) THEN <<f>> ELSE <<>>)
         \o MarkdownFilesFrom(ns, f + 1)

getMarkdownFiles(ns) == MarkdownFilesFrom(ns, 1)

\* .filter(f => f.parent?.path === file.parent?.path)
FolderFiles(ns, file) ==
  SelectSeq(getMarkdownFiles(ns), LAMBDA f : ns[f].folder = ns[file].folder)

\* what detectSequence returns: ok = FALSE stands for null; currentIndex
\* counts from 0 and is -1 when findIndex finds nothing
NoSequence ==
  [ok |-> FALSE, files |-> <<>>, currentIndex |-> -1, pattern |-> <<>>,
   type |-> "none"]

\* sortedFiles.findIndex(f => f.path === file.path)
RECURSIVE FindIndexFrom(_, _, _, _)
FindIndexFrom(ns, files, file, i) ==
  IF i > Len(files) THEN -1
  ELSE IF Path(ns, files[i]) = Path(ns, file) THEN i - 1
  ELSE FindIndexFrom(ns, files, file, i + 1)

SequenceInfo(ns, sortedFiles, file, pattern, type) ==
  [ok |-> TRUE, files |-> sortedFiles,
   currentIndex |-> FindIndexFrom(ns, sortedFiles, file, 1),
   pattern |-> pattern, type |-> type]

parsedNumeric(tb, ns, f) == tb.title[ns[f].name].numeric

parsedDate(tb, ns, f) == tb.title[ns[f].name].date

\* (a, b) => dateA.getTime() - dateB.getTime(), 0 when one has no date
DateCompare(tb, ns, files) ==
  [a \in NoteIds, b \in NoteIds |->
     IF ~parsedDate(tb, ns, a).ok \/ ~parsedDate(tb, ns, b).ok THEN 0
     ELSE parsedDate(tb, ns, a).time - parsedDate(tb, ns, b).time]

\* files.find(f => f.name === name)
FindByName(ns, files, name) ==
  LET found == SelectSeq(files, LAMBDA f : ns[f].name = name) IN
  IF found = <<>> THEN <<>> ELSE <<found[1]>>

RECURSIVE FilesOfNames(_, _, _, _)
FilesOfNames(ns, files, sortedNames, i) ==
  IF i > Len(sortedNames) THEN <<>>
  ELSE FindByName(ns, files, sortedNames[i])
         \o FilesOfNames(ns, files, sortedNames, i + 1)

sortFilesByPattern(tb, ns, files, type) ==
  IF type = "date" THEN Sort(files, DateCompare(tb, ns, files))
  ELSE FilesOfNames(ns, files,
                    Sort([i \in 1..Len(files) |-> ns[files[i]].name],
                         tb.compare),
                    1)

NumericText == <<"n", "u", "m", "e", "r", "i", "c">>

DateText == <<"d", "a", "t", "e">>

NumericResult(tb, ns, file, parsed, matchingFiles) ==
  IF Len(matchingFiles) < 2 THEN NoSequence
  ELSE SequenceInfo(ns, sortFilesByPattern(tb, ns, matchingFiles, "numeric"),
                    file,
                    IF parsed.prefix = <<>> THEN NumericText
                    ELSE parsed.prefix,
                    "numeric")

NumericMatching(tb, ns, file, parsed) ==
  SelectSeq(FolderFiles(ns, file),
            LAMBDA f : /\ parsedNumeric(tb, ns, f).ok
                       /\ parsedNumeric(tb, ns, f).prefix = parsed.prefix
                       /\ parsedNumeric(tb, ns, f).suffix = parsed.suffix)

detectNumericSequence(tb, ns, file) ==
  IF ~parsedNumeric(tb, ns, file).ok THEN NoSequence
  ELSE NumericResult(tb, ns, file, parsedNumeric(tb, ns, file),
                     NumericMatching(tb, ns, file,
                                     parsedNumeric(tb, ns, file)))

DateResult(tb, ns, file, matchingFiles) ==
  IF Len(matchingFiles) < 2 THEN NoSequence
  ELSE SequenceInfo(ns,
                    Sort(matchingFiles, DateCompare(tb, ns, matchingFiles)),
                    file, DateText, "date")

detectDateSequence(tb, ns, file) ==
  IF ~parsedDate(tb, ns, file).ok THEN NoSequence
  ELSE DateResult(tb, ns, file,
                  SelectSeq(FolderFiles(ns, file),
                            LAMBDA f : parsedDate(tb, ns, f).ok))

CustomMatching(ns, file, row) ==
  SelectSeq(FolderFiles(ns, file), LAMBDA f : row.match[ns[f].name].ok)

\* the loop "for (const pattern of this.customPatterns)" from pattern i on:
\* a pattern that is disabled, does not compile, does not match the title
\* or matches fewer than 2 files of the folder is passed over
RECURSIVE CustomFrom(_, _, _, _, _), CustomResult(_, _, _, _, _, _)
CustomResult(tb, ns, file, patterns, i, matchingFiles) ==
  IF Len(matchingFiles) < 2 THEN CustomFrom(tb, ns, file, patterns, i + 1)
  ELSE SequenceInfo(ns, sortFilesByPattern(tb, ns, matchingFiles, "numeric"),
                    file, patterns[i].name, "custom")

CustomFrom(tb, ns, file, patterns, i) ==
  IF i > Len(patterns) THEN NoSequence
  ELSE IF ~patterns[i].enabled
       THEN CustomFrom(tb, ns, file, patterns, i + 1)
  ELSE IF ~tb.pattern[patterns[i].regex].ok
       THEN CustomFrom(tb, ns, file, patterns, i + 1)
  ELSE IF ~tb.pattern[patterns[i].regex].match[ns[file].name].ok
       THEN CustomFrom(tb, ns, file, patterns, i + 1)
  ELSE CustomResult(tb, ns, file, patterns, i,
                    CustomMatching(ns, file,
                                   tb.pattern[patterns[i].regex]))

\* the patterns before the first enabled one that does not compile
RECURSIVE BeforeBroken(_, _, _)
BeforeBroken(tb, patterns, i) ==
  IF i > Len(patterns) THEN <<>>
  ELSE IF patterns[i].enabled /\ ~tb.pattern[patterns[i].regex].ok THEN <<>>
  ELSE <<patterns[i]>> \o BeforeBroken(tb, patterns, i + 1)

\* faulty variant: a pattern that does not compile ends the loop
detectCustomUntilBroken(tb, ns, file, patterns) ==
  CustomFrom(tb, ns, file, BeforeBroken(tb, patterns, 1), 1)

detectCustomSequence(tb, ns, file, patterns) ==
  CustomFrom(tb, ns, file, patterns, 1)
---------------------------------------------------------------------------
(* Cache (the detector's cache: file path -> SequenceInfo)                 *)

\* new Cache<string, SequenceInfo>(60000)
CacheMaxAge == 60000

EmptyCache == [k \in {} |-> NoSequence]

\* set(key, value) at time t
CacheSet(c, key, value, t) ==
  [k \in DOMAIN c \cup {key} |->
     IF k = key THEN [value |-> value, timestamp |-> t] ELSE c[k]]

\* delete(key)
CacheDelete(c, key) == [k \in DOMAIN c \ {key} |-> c[k]]

\* faulty variant: an entry as old as the expiry duration has expired
CacheGetExpiresEarly(c, key, t) ==
  IF key \notin DOMAIN c
  THEN [hit |-> FALSE, value |-> NoSequence, cache |-> c]
  ELSE IF t - c[key].timestamp >= CacheMaxAge
  THEN [hit |-> FALSE, value |-> NoSequence, cache |-> CacheDelete(c, key)]
  ELSE [hit |-> TRUE, value |-> c[key].value, cache |-> c]

\* get(key) at time t: hit = FALSE stands for null; cache is the map after
\* the call, without the entry when it had expired
CacheGet(c, key, t) ==
  IF key \notin DOMAIN c
  THEN [hit |-> FALSE, value |-> NoSequence, cache |-> c]
  ELSE IF t - c[key].timestamp > CacheMaxAge
  THEN [hit |-> FALSE, value |-> NoSequence, cache |-> CacheDelete(c, key)]
  ELSE [hit |-> TRUE, value |-> c[key].value, cache |-> c]

---------------------------------------------------------------------------
(* detectSequence                                                          *)

\* numeric first, then date, then the custom patterns
FirstSequence(numericSequence, dateSequence, customSequence) ==
  IF numericSequence.ok THEN numericSequence
  ELSE IF dateSequence.ok THEN dateSequence
  ELSE customSequence

\* what detectSequence computes from the vault when the cache gives nothing
ComputeSequence(tb, ns, file, patterns) ==
  FirstSequence(detectNumericSequence(tb, ns, file),
                detectDateSequence(tb, ns, file),
                detectCustomSequence(tb, ns, file, patterns))

\* the sequence found is cached, null is not
StoreSequence(c, key, info, t) ==
  [info |-> info, hit |-> FALSE,
   cache |-> IF info.ok THEN CacheSet(c, key, info, t) ELSE c]

AfterCacheGet(tb, ns, cached, file, patterns, t) ==
  IF cached.hit
  THEN [info |-> cached.value, hit |-> TRUE, cache |-> cached.cache]
  ELSE StoreSequence(cached.cache, Path(ns, file),
                     ComputeSequence(tb, ns, file, patterns), t)

\* detectSequence(tb, file) at time t: what it returns, whether the cache gave
\* it, and the cache after the call
detectSequence(tb, ns, c, file, patterns, t) ==
  AfterCacheGet(tb, ns, CacheGet(c, Path(ns, file), t), file, patterns, t)

\* faulty variant: the entry of the file is kept
invalidateFileKeeps(c, filePath) == c

\* invalidateFile(filePath): the cache after it
invalidateFile(c, filePath) == CacheDelete(c, filePath)

\* clearCache(): the cache after it
clearCache == EmptyCache

---------------------------------------------------------------------------
(* The rewriting of the documents the model can reach, computed once       *)

\* [[N10]]: a document that links to a note of a sequence
DocSeq == <<"[", "[", "N", "1", "0", "]", "]">>

\* the links the rename handler replaces in the model of the detector
SeqPairs ==
  {<<getBaseName(PathOf(FolderNotes, n)), getBaseName(PathOf(FolderNotes, n))>> :
     n \in Names}
    \cup {<<getBaseName(PathOf(FolderNotes, n)),
            getBaseName(PathOf(FolderNotes, NameN3))>> : n \in Names}

LinkPairs == (TableOld \X TableNew) \cup SeqPairs

\* the rewriting of every document of S for every pair of links
RewriteRows(S) ==
  [c \in S, p \in LinkPairs |-> RewriteLinks(c, p[1], p[2])]

RowContents(rows) == {rows[k].newContent : k \in DOMAIN rows}

\* S is extended until every rewriting of its documents is in it
RECURSIVE RewriteClosure(_), RewriteFixpoint(_, _)
RewriteFixpoint(S, rows) ==
  IF RowContents(rows) \subseteq S THEN rows
  ELSE RewriteClosure(S \cup RowContents(rows))

RewriteClosure(S) == RewriteFixpoint(S, RewriteRows(S))

RewriteTable == RewriteClosure(AllDocs \cup {DocSeq})

Contents == {k[1] : k \in DOMAIN RewriteTable}

CountTable == [c \in Contents, o \in TableOld |-> countLinkOccurrences(c, o)]

\* RewriteLinks, looked up where it was computed
Rewritten(content, oldLink, newLink) ==
  RewriteTable[content, <<oldLink, newLink>>]

\* countLinkOccurrences, looked up where it was computed
Counted(content, link) == CountTable[content, link]

---------------------------------------------------------------------------
(* LinkManager                                                             *)

\* bound of the model: the paths of the vault. The last one is the path of
\* an attachment, the others are paths of markdown files
NumDocs == 4

Docs == 1..NumDocs

MarkdownDocs == 1..(NumDocs - 1)

\* the link texts the host's reference index reports: A, A#h, B|x and C
TextA == <<"A">>

TextAh == <<"A", "#", "h">>

TextBx == <<"B", "|", "x">>

TextC == <<"C">>

\* the linkpaths the host's reference index may know a destination for; it
\* knows none for any other
Linkpaths == {<<"A">>, <<"B">>}

\* an entry of cache.links or cache.embeds
Reference(link, displayText, line) ==
  [link |-> link, displayText |-> displayText, line |-> line]

\* what the host's reference index may hold for a file that it has read:
\* two references of one line may be equal
FileCaches ==
  {[cached |-> TRUE, links |-> <<>>, embeds |-> <<>>],
   [cached |-> TRUE,
    links |-> <<Reference(TextAh, <<>>, 0), Reference(TextBx, <<"x">>, 1)>>,
    embeds |-> <<>>],
   [cached |-> TRUE,
    links |-> <<Reference(TextA, <<>>, 0), Reference(TextA, <<>>, 0)>>,
    embeds |-> <<Reference(TextC, <<>>, 2)>>],
   [cached |-> TRUE, links |-> <<>>,
    embeds |-> <<Reference(TextBx, <<>>, 2)>>]}

\* getFileCache(file) is null
NoFileCache == [cached |-> FALSE, links |-> <<>>, embeds |-> <<>>]

\* the reference index before the host has read a file
EmptyMetadata ==
  [files |-> [f \in Docs |-> NoFileCache],
   dest |-> [p \in Linkpaths |-> 0]]

\* vault.getMarkdownFiles(): the markdown files of the listing ls
listMarkdownFiles(ls) ==
  SelectSeq([f \in 1..NumDocs |-> f],
            LAMBDA f : f \in ls /\ f \in MarkdownDocs)

\* vault.getAbstractFileByPath(path) is not null
getAbstractFileByPath(ls, path) == path \in ls

\* metadataCache.getFirstLinkpathDest(linkpath, sourcePath): a path, 0 for
\* null. The index of the model has one destination for a linkpath, from
\* whatever source
getFirstLinkpathDest(mc, linkpath, sourcePath) ==
  IF linkpath \in DOMAIN mc.dest THEN mc.dest[linkpath] ELSE 0

\* text.split(sep)[0]
SplitHead(text, sep) ==
  IF \E i \in DOMAIN text : text[i] = sep
  THEN SubSeq(text, 1,
              (CHOOSE i \in DOMAIN text :
                 /\ text[i] = sep
                 /\ \A j \in 1..(i - 1) : text[j] # sep) - 1)
  ELSE text

\* faulty variant: the link text is resolved as it stands
resolveLinkRaw(mc, linkText, sourceFile) ==
  getFirstLinkpathDest(mc, linkText, sourceFile)

\* resolveLink(linkText, sourceFile): the target, 0 for null
resolveLink(mc, linkText, sourceFile) ==
  getFirstLinkpathDest(mc, SplitHead(SplitHead(linkText, "#"), "|"),
                       sourceFile)

\* the LinkInfo extractLinksFromCache pushes for a link or an embed
LinkInfo(mc, file, link) ==
  [sourceFile |-> file,
   linkText |-> link.link,
   displayText |-> IF link.displayText # <<>> THEN link.displayText
                   ELSE link.link,
   line |-> link.line,
   isResolved |-> resolveLink(mc, link.link, file) # 0,
   targetFile |-> resolveLink(mc, link.link, file)]

\* extractLinksFromCache(file, cache): the links, then the embeds
extractLinksFromCache(mc, file, fc) ==
  [i \in 1..Len(fc.links) |-> LinkInfo(mc, file, fc.links[i])]
    \o [i \in 1..Len(fc.embeds) |-> LinkInfo(mc, file, fc.embeds[i])]

\* the loop of validateAllLinks over files from the i-th on: every LinkInfo
\* of the files that have a cache
RECURSIVE FileLinksFrom(_, _, _)
FileLinksFrom(mc, files, i) ==
  IF i > Len(files) THEN <<>>
  ELSE (IF ~mc.files[files[i]].cached THEN <<>>
        ELSE extractLinksFromCache(mc, files[i], mc.files[files[i]]))
         \o FileLinksFrom(mc, files, i + 1)


\* the else-if of validateAllLinks
IsBroken(ls, link) ==
  /\ link.isResolved
  /\ link.targetFile # 0
  /\ ~getAbstractFileByPath(ls, link.targetFile)

\* validateAllLinks() at time t: the ValidationResult
ValidationResult(ls, mc, t) ==
  [brokenLinks |-> SelectSeq(FileLinksFrom(mc, listMarkdownFiles(ls), 1),
                             LAMBDA link : IsBroken(ls, link)),
   unresolvedLinks |-> SelectSeq(FileLinksFrom(mc, listMarkdownFiles(ls), 1),
                                 LAMBDA link : ~link.isResolved),
   totalFiles |-> Len(listMarkdownFiles(ls)),
   totalLinks |-> Len(FileLinksFrom(mc, listMarkdownFiles(ls), 1)),
   timestamp |-> t]

\* faulty variant: only the links count, not the embeds
hasLinksOnly(mc, file) ==
  /\ mc.files[file].cached
  /\ Len(mc.files[file].links) > 0

\* hasOutgoingLinks(file)
hasOutgoingLinks(mc, file) ==
  /\ mc.files[file].cached
  /\ (Len(mc.files[file].links) > 0 \/ Len(mc.files[file].embeds) > 0)

\* hasIncomingLinks(file): a link or embed of another markdown file that has
\* a cache resolves to the path of file
hasIncomingLinks(ls, mc, file) ==
  \E otherFile \in (ls \cap MarkdownDocs) \ {file} :
    /\ mc.files[otherFile].cached
    /\ \E i \in 1..Len(mc.files[otherFile].links \o mc.files[otherFile].embeds) :
         resolveLink(mc,
                     (mc.files[otherFile].links
                        \o mc.files[otherFile].embeds)[i].link,
                     otherFile) = file

\* the references of the cache fc: [...(cache.links || []), ...(cache.embeds
\* || [])]
AllReferences(fc) == fc.links \o fc.embeds

\* faulty variant: the file itself is not passed over
IncomingFromAny(mc, file, otherFile) ==
  IF ~mc.files[otherFile].cached THEN 0
  ELSE Cardinality({i \in DOMAIN AllReferences(mc.files[otherFile]) :
                      resolveLink(mc,
                                  AllReferences(mc.files[otherFile])[i].link,
                                  otherFile) = file})

\* the body of the loop of getLinkStats: what otherFile adds to incoming
IncomingFrom(mc, file, otherFile) ==
  IF otherFile = file THEN 0
  ELSE IF ~mc.files[otherFile].cached THEN 0
  ELSE Cardinality({i \in DOMAIN AllReferences(mc.files[otherFile]) :
                      resolveLink(mc,
                                  AllReferences(mc.files[otherFile])[i].link,
                                  otherFile) = file})

\* the loop of getLinkStats over allFiles from the i-th on
RECURSIVE IncomingCount(_, _, _, _)
IncomingCount(mc, file, allFiles, i) ==
  IF i > Len(allFiles) THEN 0
  ELSE IncomingFrom(mc, file, allFiles[i])
         + IncomingCount(mc, file, allFiles, i + 1)

\* getLinkStats(file): what it returns
LinkStats(ls, mc, file) ==
  [outgoing |-> IF mc.files[file].cached
                THEN Len(extractLinksFromCache(mc, file, mc.files[file]))
                ELSE 0,
   unresolved |-> IF mc.files[file].cached
                  THEN Len(SelectSeq(extractLinksFromCache(mc, file,
                                                           mc.files[file]),
                                     LAMBDA l : ~l.isResolved))
                  ELSE 0,
   incoming |-> IncomingCount(mc, file, listMarkdownFiles(ls), 1)]

\* getOrphanedNotes(): the list it returns
OrphanedNotes(ls, mc) ==
  SelectSeq(listMarkdownFiles(ls),
            LAMBDA file : /\ ~hasOutgoingLinks(mc, file)
                          /\ ~hasIncomingLinks(ls, mc, file))

---------------------------------------------------------------------------
(* State                                                                   *)

VARIABLES
  vault,      \* the host document store: file -> content
  undoStack,  \* BatchOperations.undoStack, oldest entry first
  call,       \* the last call: its arguments, what it returned, its writes
  pre,        \* vault and undoStack when the last call started
  run,        \* the current run of serial batches and the undos after it
  steps,      \* number of calls made so far
  notes,      \* the host's files: id -> state, folder and name
  cache,      \* SequenceDetector.cache: path -> value and timestamp
  now,        \* Date.now(), from the start of the behaviour
  settings,   \* the plugin's settings
  active,     \* workspace.getActiveFile(): a file id, 0 for none
  seq,        \* the detectSequence call of the last step, if any
  got,        \* the Cache.get call of the last step, if any
  stored,     \* what set wrote and neither delete nor clear removed
  listing,    \* the paths the vault holds a file for
  metadataCache, \* the host's reference index: file caches and linkpaths
  links,      \* the LinkManager call of the last step, if any
  sorter,     \* the naturalSort calls of the last step, if any
  tasks,      \* the batch and undo calls in flight, each where it stands
  inserter    \* the LinkInserter call of the last step, if any

batchVars == <<vault, undoStack, call, pre, run>>

seqVars == <<notes, cache, now, settings, active, seq, got, stored>>

linkVars == <<listing, metadataCache, links>>

toolVars == <<sorter, tasks, inserter>>

vars == <<vault, undoStack, call, pre, run, steps, notes, cache, now,
          settings, active, seq, got, stored, listing, metadataCache, links,
          sorter, tasks, inserter>>

\* bounds of the model
NumFiles == 2
MaxOps == 2

\* the undo stack keeps the last 10 operations
UndoLimit == 10

\* app.vault.getMarkdownFiles(), in the host's enumeration order
Files == 1..NumFiles

NoCall ==
  [op |-> "none", oldLink |-> <<>>, newLink |-> <<>>, dryRun |-> FALSE,
   success |-> 0, failed |-> 0, operations |-> <<>>, preview |-> <<>>,
   ret |-> FALSE, writes |-> <<>>, pushed |-> FALSE, popped |-> <<>>,
   fail |-> <<>>, failAt |-> 0, clean |-> FALSE, after |-> "none"]

\* nb batches that each changed a document, then nu undos; hist[i] is the
\* vault before the i-th of these batches
NoRun == [nb |-> 0, nu |-> 0, hist |-> <<>>]

\* no detectSequence call in the last step
NoDetect ==
  [called |-> FALSE, file |-> 0, info |-> NoSequence, hit |-> FALSE,
   dropped |-> {}, event |-> "none", returned |-> "none", opened |-> 0]

\* no Cache.get call in the last step
NoGet == [called |-> FALSE, key |-> <<>>, hit |-> FALSE, value |-> NoSequence]

DefaultSettings ==
  [customPatterns |-> DefaultPatterns, autoUpdateLinks |-> TRUE,
   showSequenceInStatusBar |-> TRUE, circularNavigation |-> FALSE]

\* the detector is idle: what the batch engine's specifications start from
\* and leave alone
SeqIdle ==
  /\ notes = [f \in NoteIds |-> NoNote]
  /\ cache = EmptyCache
  /\ now = 0
  /\ settings = DefaultSettings
  /\ active = 0
  /\ seq = NoDetect
  /\ got = NoGet
  /\ stored = EmptyCache

\* no LinkManager call in the last step
NoLinks ==
  [op |-> "none", validation |-> ValidationResult({}, EmptyMetadata, 0),
   orphaned |-> <<>>, file |-> 0,
   stats |-> [outgoing |-> 0, unresolved |-> 0, incoming |-> 0]]

\* the link manager is idle: what the other specifications start from and
\* leave alone
LinkIdle ==
  /\ listing = {}
  /\ metadataCache = EmptyMetadata
  /\ links = NoLinks

\* no naturalSort call in the last step
NoSorter == [called |-> FALSE, a |-> <<>>, b |-> <<>>, ab |-> 0, ba |-> 0]

\* no batch and no undo in flight
NoTasks == [flight |-> <<>>, overlap |-> FALSE, origin |-> <<>>]

\* no LinkInserter call in the last step
NoInserter ==
  [op |-> "none", docs |-> <<>>, origin |-> <<>>, file |-> 0,
   ret |-> FALSE, prev |-> 0, next |-> 0]

\* the comparator, the tasks and the link inserter are idle
ToolIdle ==
  /\ sorter = NoSorter
  /\ tasks = NoTasks
  /\ inserter = NoInserter

---------------------------------------------------------------------------
(* Faulty variants of the operations below: a property that is worth its   *)
(* name tells each of them from the operation it replaces                  *)

\* the loop body without "if (!dryRun)" around the write
BatchFileWritesOnDryRun(acc, file, oldLink, newLink, dryRun, fail) ==
  LET content == acc.vault[file]
      rw      == Rewritten(content, oldLink, newLink)
      changed == content # rw.newContent
      threw   == \/ fail[file] = "read"
                 \/ rw.threw
                 \/ changed /\ ~dryRun /\ fail[file] = "write"
  IN
  IF threw
  THEN [acc EXCEPT
          !.failed = @ + 1,
          !.operations = Append(@, [file |-> file, oldContent |-> <<>>,
                                    newContent |-> <<>>, success |-> FALSE])]
  ELSE IF changed
  THEN [acc EXCEPT
          !.vault = [@ EXCEPT ![file] = rw.newContent],
          !.writes = Append(@, [file |-> file, data |-> rw.newContent]),
          !.batchOps = IF dryRun THEN @
                       ELSE Append(@, [file |-> file, oldContent |-> content,
                                       newContent |-> rw.newContent]),
          !.operations = Append(@, [file |-> file, oldContent |-> content,
                                    newContent |-> rw.newContent,
                                    success |-> TRUE]),
          !.success = @ + 1]
  ELSE acc

\* a push that never drops the oldest entry
PushUndoNoShift(stack, batchOps) ==
  Append(stack, [operations |-> batchOps])

\* an undo that writes the content the batch wrote
RECURSIVE UndoLoopWritesNew(_, _, _, _)
UndoLoopWritesNew(acc, ops, i, failAt) ==
  IF i > Len(ops) THEN [acc EXCEPT !.ret = TRUE]
  ELSE IF i = failAt THEN [acc EXCEPT !.ret = FALSE]
  ELSE UndoLoopWritesNew(
         [acc EXCEPT
            !.vault = [@ EXCEPT ![ops[i].file] = ops[i].newContent],
            !.writes = Append(@, [file |-> ops[i].file,
                                  data |-> ops[i].newContent])],
         ops, i + 1, failAt)

---------------------------------------------------------------------------
(* batchReplaceLink                                                        *)

\* one iteration of "for (const file of files)": acc is the state of the
\* loop, fail[file] says whether the host fails the read or the write
BatchFileStep(acc, file, content, rw, dryRun, fail) ==
  LET changed == content # rw.newContent
      threw   == \/ fail[file] = "read"
                 \/ rw.threw
                 \/ changed /\ ~dryRun /\ fail[file] = "write"
  IN
  IF threw
  THEN [acc EXCEPT
          !.failed = @ + 1,
          !.operations = Append(@, [file |-> file, oldContent |-> <<>>,
                                    newContent |-> <<>>, success |-> FALSE])]
  ELSE IF changed
  THEN [acc EXCEPT
          !.vault = IF dryRun THEN @
                    ELSE [@ EXCEPT ![file] = rw.newContent],
          !.writes = IF dryRun THEN @
                     ELSE Append(@, [file |-> file, data |-> rw.newContent]),
          !.batchOps = IF dryRun THEN @
                       ELSE Append(@, [file |-> file, oldContent |-> content,
                                       newContent |-> rw.newContent]),
          !.operations = Append(@, [file |-> file, oldContent |-> content,
                                    newContent |-> rw.newContent,
                                    success |-> TRUE]),
          !.success = @ + 1]
  ELSE acc

BatchFile(acc, file, oldLink, newLink, dryRun, fail) ==
  BatchFileStep(acc, file, acc.vault[file],
                Rewritten(acc.vault[file], oldLink, newLink), dryRun, fail)

\* faulty variant: the loop ends at the first document that fails
RECURSIVE BatchLoopAborts(_, _, _, _, _, _)
BatchLoopAborts(acc, file, oldLink, newLink, dryRun, fail) ==
  IF file > NumFiles \/ acc.failed > 0 THEN acc
  ELSE BatchLoopAborts(BatchFile(acc, file, oldLink, newLink, dryRun, fail),
                       file + 1, oldLink, newLink, dryRun, fail)

RECURSIVE BatchLoop(_, _, _, _, _, _)
BatchLoop(acc, file, oldLink, newLink, dryRun, fail) ==
  IF file > NumFiles THEN acc
  ELSE BatchLoop(BatchFile(acc, file, oldLink, newLink, dryRun, fail),
                 file + 1, oldLink, newLink, dryRun, fail)

\* "Keep only last 10 operations": push, then shift when longer than 10
PushUndo(stack, batchOps) ==
  LET pushed == Append(stack, [operations |-> batchOps]) IN
  IF Len(pushed) > UndoLimit THEN Tail(pushed) ELSE pushed

\* faulty variant: the entry is pushed without the test of batchOps.length
BatchResultPushesEmpty(acc, stack, dryRun) ==
  [vault |-> acc.vault,
   undoStack |-> IF ~dryRun THEN PushUndo(stack, acc.batchOps) ELSE stack,
   pushed |-> ~dryRun,
   writes |-> acc.writes,
   success |-> acc.success, failed |-> acc.failed,
   operations |-> acc.operations]

\* the whole call: the loop, then the push on the undo stack
BatchResult(acc, stack, dryRun) ==
  LET push == ~dryRun /\ Len(acc.batchOps) > 0
  IN [vault |-> acc.vault,
      undoStack |-> IF push THEN PushUndo(stack, acc.batchOps) ELSE stack,
      pushed |-> push,
      writes |-> acc.writes,
      success |-> acc.success, failed |-> acc.failed,
      operations |-> acc.operations]

BatchOutcome(v, stack, oldLink, newLink, dryRun, fail) ==
  BatchResult(BatchLoop([vault |-> v, writes |-> <<>>, batchOps |-> <<>>,
                         operations |-> <<>>, success |-> 0, failed |-> 0],
                        1, oldLink, newLink, dryRun, fail),
              stack, dryRun)

\* the run of serial batches: a batch without failure that changed a document
\* extends it (or starts one when undos have begun), any other call ends it
RunAfterBatch(out, dryRun) ==
  IF dryRun \/ out.failed > 0 \/ ~out.pushed THEN NoRun
  ELSE IF run.nb >= 1 /\ run.nu = 0
  THEN [run EXCEPT !.nb = @ + 1, !.hist = Append(@, vault)]
  ELSE [nb |-> 1, nu |-> 0, hist |-> <<vault>>]

Record(c) ==
  /\ call' = [c EXCEPT !.after = call.op]
  /\ pre' = [vault |-> vault, undoStack |-> undoStack]
  /\ steps' = steps + 1

BatchReturn(out, op, oldLink, newLink, dryRun, fail) ==
  /\ vault' = out.vault
  /\ undoStack' = out.undoStack
  /\ run' = RunAfterBatch(out, dryRun)
  /\ Record([NoCall EXCEPT
               !.op = op, !.oldLink = oldLink, !.newLink = newLink,
               !.dryRun = dryRun, !.success = out.success,
               !.failed = out.failed, !.operations = out.operations,
               !.writes = out.writes, !.pushed = out.pushed,
               !.fail = fail, !.clean = \A f \in Files : fail[f] = "ok"])

BatchCall(op, oldLink, newLink, dryRun, fail) ==
  BatchReturn(BatchOutcome(vault, undoStack, oldLink, newLink, dryRun, fail),
              op, oldLink, newLink, dryRun, fail)

batchReplaceLink(oldLink, newLink, dryRun, fail) ==
  /\ BatchCall("batchReplaceLink", oldLink, newLink, dryRun, fail)
  /\ UNCHANGED <<seqVars, linkVars, toolVars>>

renameAllInstances(oldPath, newPath, dryRun, fail) ==
  /\ BatchCall("renameAllInstances", getBaseName(oldPath),
               getBaseName(newPath), dryRun, fail)
  /\ UNCHANGED <<seqVars, linkVars, toolVars>>

\* the rename handler's call; the Notice it shows is not modelled
LinksOnRename(oldPath, newPath, fail) ==
  BatchCall("updateLinksOnRename", getBaseName(oldPath),
               getBaseName(newPath), FALSE, fail)

\* updateLinksOnRename called on its own
updateLinksOnRename(oldPath, newPath, fail) ==
  /\ LinksOnRename(oldPath, newPath, fail)
  /\ UNCHANGED <<seqVars, linkVars, toolVars>>

\* the list previewChanges returns from a dry-run result
PreviewOf(operations, oldLink) ==
  LET ok == SelectSeq(operations, LAMBDA o : o.success) IN
  [i \in 1..Len(ok) |->
     [file |-> ok[i].file,
      changes |-> Counted(ok[i].oldContent, oldLink)]]

PreviewReturn(out, oldLink, newLink, fail) ==
  /\ vault' = out.vault
  /\ undoStack' = out.undoStack
  /\ run' = NoRun
  /\ Record([NoCall EXCEPT
               !.op = "previewChanges", !.oldLink = oldLink,
               !.newLink = newLink, !.dryRun = TRUE,
               !.success = out.success, !.failed = out.failed,
               !.operations = out.operations, !.writes = out.writes,
               !.preview = PreviewOf(out.operations, oldLink),
               !.fail = fail, !.clean = \A f \in Files : fail[f] = "ok"])

previewChanges(oldLink, newLink, fail) ==
  /\ PreviewReturn(BatchOutcome(vault, undoStack, oldLink, newLink, TRUE,
                                fail),
                   oldLink, newLink, fail)
  /\ UNCHANGED <<seqVars, linkVars, toolVars>>

---------------------------------------------------------------------------
(* undoLastOperation                                                       *)

\* "for (const op of lastOp.operations) await vault.modify(op.file,
\* op.oldContent)": failAt is the write the host fails (0: none)
RECURSIVE UndoLoop(_, _, _, _)
UndoLoop(acc, ops, i, failAt) ==
  IF i > Len(ops) THEN [acc EXCEPT !.ret = TRUE]
  ELSE IF i = failAt THEN [acc EXCEPT !.ret = FALSE]
  ELSE UndoLoop([acc EXCEPT
                   !.vault = [@ EXCEPT ![ops[i].file] = ops[i].oldContent],
                   !.writes = Append(@, [file |-> ops[i].file,
                                         data |-> ops[i].oldContent])],
                ops, i + 1, failAt)

\* faulty variant: the entry is put back when a write fails
UndoOutcomeRepush(v, stack, failAt) ==
  IF Len(stack) = 0
  THEN [vault |-> v, undoStack |-> stack, ret |-> FALSE, writes |-> <<>>,
        popped |-> <<>>]
  ELSE LET lastOp == stack[Len(stack)]
           acc == UndoLoop([vault |-> v, writes |-> <<>>, ret |-> FALSE],
                           lastOp.operations, 1, failAt)
       IN [vault |-> acc.vault,
           undoStack |-> IF acc.ret THEN SubSeq(stack, 1, Len(stack) - 1)
                         ELSE stack,
           ret |-> acc.ret, writes |-> acc.writes, popped |-> <<lastOp>>]

\* faulty variant: the oldest entry is taken, not the most recent
UndoOutcomeOldest(v, stack, failAt) ==
  IF Len(stack) = 0
  THEN [vault |-> v, undoStack |-> stack, ret |-> FALSE, writes |-> <<>>,
        popped |-> <<>>]
  ELSE LET lastOp == stack[1]
           acc == UndoLoop([vault |-> v, writes |-> <<>>, ret |-> FALSE],
                           lastOp.operations, 1, failAt)
       IN [vault |-> acc.vault,
           undoStack |-> Tail(stack),
           ret |-> acc.ret, writes |-> acc.writes, popped |-> <<lastOp>>]

UndoOutcome(v, stack, failAt) ==
  IF Len(stack) = 0
  THEN [vault |-> v, undoStack |-> stack, ret |-> FALSE, writes |-> <<>>,
        popped |-> <<>>]
  ELSE LET lastOp == stack[Len(stack)]
           acc == UndoLoop([vault |-> v, writes |-> <<>>, ret |-> FALSE],
                           lastOp.operations, 1, failAt)
       IN [vault |-> acc.vault,
           undoStack |-> SubSeq(stack, 1, Len(stack) - 1),
           ret |-> acc.ret, writes |-> acc.writes, popped |-> <<lastOp>>]

\* an undo without failure that follows the run's batches counts for the
\* run; any other undo ends it
RunAfterUndo(failed) ==
  IF ~failed /\ run.nb >= 1 /\ run.nu < run.nb
  THEN [run EXCEPT !.nu = @ + 1]
  ELSE NoRun

UndoReturn(out, failAt) ==
  LET failed == out.popped # <<>> /\ ~out.ret
  IN
  /\ vault' = out.vault
  /\ undoStack' = out.undoStack
  /\ run' = RunAfterUndo(failed)
  /\ Record([NoCall EXCEPT
               !.op = "undoLastOperation", !.ret = out.ret,
               !.writes = out.writes, !.popped = out.popped,
               !.failAt = failAt, !.clean = ~failed])

undoLastOperation(failAt) ==
  /\ UndoReturn(UndoOutcome(vault, undoStack, failAt), failAt)
  /\ UNCHANGED <<seqVars, linkVars, toolVars>>

---------------------------------------------------------------------------
(* The host: a document is edited outside the plugin                      *)

EditDocument(file, content) ==
  /\ vault[file] # content
  /\ vault' = [vault EXCEPT ![file] = content]
  /\ UNCHANGED undoStack
  /\ run' = NoRun
  /\ Record([NoCall EXCEPT !.op = "edit",
               !.writes = <<[file |-> file, data |-> content]>>])
  /\ UNCHANGED <<seqVars, linkVars, toolVars>>


---------------------------------------------------------------------------
(* Specifications                                                          *)

\* the host fails no access, or one read, or one write
NoFailure == [f \in Files |-> "ok"]

Failures ==
  {NoFailure}
    \cup {[NoFailure EXCEPT ![f] = k] : f \in Files, k \in {"read", "write"}}

ReadFailures == {x \in Failures : \A f \in Files : x[f] # "write"}

InitWith(docs) ==
  /\ vault \in [Files -> docs]
  /\ undoStack = <<>>
  /\ call = NoCall
  /\ pre = [vault |-> <<>>, undoStack |-> <<>>]
  /\ run = NoRun
  /\ steps = 0
  /\ SeqIdle
  /\ LinkIdle
  /\ ToolIdle

Init == InitWith(StartDocs)

Next ==
  \/ /\ steps < MaxOps
     /\ \E p \in PlainPairs, d \in BOOLEAN, x \in Failures :
          batchReplaceLink(p[1], p[2], d, x)
  \/ /\ steps < MaxOps
     /\ \E p \in PlainPairs, x \in ReadFailures :
          previewChanges(p[1], p[2], x)
  \/ /\ steps < MaxOps
     /\ \E d \in BOOLEAN : renameAllInstances(PathA, PathB, d, NoFailure)
  \/ /\ steps < MaxOps
     /\ updateLinksOnRename(PathA, PathB, NoFailure)
  \/ /\ steps < MaxOps
     /\ \E k \in 0..NumFiles : undoLastOperation(k)
  \/ /\ steps < MaxOps
     /\ \E f \in Files, c \in {DocWiki, DocNear} : EditDocument(f, c)

Spec == Init /\ [][Next]_vars

\* batches, renames and undos without failure, long enough to fill the stack
MaxUndoOps == 12

\* the first document is any of UndoDocs, the others link to A
InitUndo ==
  /\ InitWith(UndoDocs)
  /\ \A f \in Files \ {1} : vault[f] = DocWiki

NextUndo ==
  \/ /\ steps < MaxUndoOps
     /\ \E o \in UndoLinks, n \in UndoLinks :
          batchReplaceLink(o, n, FALSE, NoFailure)
  \/ /\ steps < MaxUndoOps
     /\ renameAllInstances(PathB, PathA, FALSE, NoFailure)
  \/ /\ steps < MaxUndoOps
     /\ updateLinksOnRename(PathA, PathB, NoFailure)
  \/ /\ steps < MaxUndoOps
     /\ undoLastOperation(0)
  \/ /\ steps < MaxUndoOps
     /\ previewChanges(LinkA, LinkB, NoFailure)

SpecUndo == InitUndo /\ [][NextUndo]_vars

\* batchReplaceLink and undoLastOperation alone, for runs of 10 batches
MaxSerialOps == 22

NextSerial ==
  \/ /\ steps < MaxSerialOps
     /\ \E o \in UndoLinks, n \in UndoLinks :
          batchReplaceLink(o, n, FALSE, NoFailure)
  \/ /\ steps < MaxSerialOps
     /\ undoLastOperation(0)

SpecSerial == InitUndo /\ [][NextSerial]_vars

\* batches and undos with documents edited by the user in between
MaxEditOps == 3

NextEdit ==
  \/ /\ steps < MaxEditOps
     /\ \E o \in UndoLinks, n \in UndoLinks :
          batchReplaceLink(o, n, FALSE, NoFailure)
  \/ /\ steps < MaxEditOps
     /\ undoLastOperation(0)
  \/ /\ steps < MaxEditOps
     /\ \E f \in Files, c \in {DocNear, DocB} : EditDocument(f, c)

SpecEdit == InitUndo /\ [][NextEdit]_vars

---------------------------------------------------------------------------
(* The calls as the host runs them: each suspends at its awaits            *)

\* calls started, and calls in flight at once
MaxCalls == 3
MaxInFlight == 2

\* a batchReplaceLink(oldLink, newLink, false) suspended at the read of its
\* first document
BatchTask(oldLink, newLink) ==
  [kind |-> "batch", oldLink |-> oldLink, newLink |-> newLink,
   file |-> 1, at |-> "read", content |-> <<>>, newContent |-> <<>>,
   batchOps |-> <<>>, i |-> 0]

\* an undoLastOperation suspended at the write of the first operation of the
\* entry it popped
UndoTask(lastOp) ==
  [kind |-> "undo", oldLink |-> <<>>, newLink |-> <<>>,
   file |-> 0, at |-> "write", content |-> <<>>, newContent |-> <<>>,
   batchOps |-> lastOp.operations, i |-> 1]

Without(flight, k) ==
  SubSeq(flight, 1, k - 1) \o SubSeq(flight, k + 1, Len(flight))

TaskFrame ==
  /\ UNCHANGED <<call, pre, run, seqVars, linkVars, sorter, inserter>>

Started(t) ==
  /\ tasks' = [tasks EXCEPT !.flight = Append(@, t),
                            !.overlap = @ \/ tasks.flight # <<>>]
  /\ steps' = steps + 1

\* the command or the rename handler calls batchReplaceLink: the call runs to
\* its first await
StartBatch(oldLink, newLink) ==
  /\ Len(tasks.flight) < MaxInFlight
  /\ Started(BatchTask(oldLink, newLink))
  /\ UNCHANGED <<vault, undoStack>>
  /\ TaskFrame

\* the rename handler: updateLinksOnRename -> renameAllInstances ->
\* batchReplaceLink
StartRename(oldPath, newPath) ==
  StartBatch(getBaseName(oldPath), getBaseName(newPath))

\* undoLastOperation runs to its first await: the entry is popped before the
\* first write; with an empty stack the call returns false at once
StartUndo ==
  /\ Len(tasks.flight) < MaxInFlight
  /\ IF undoStack = <<>>
     THEN /\ UNCHANGED <<undoStack, tasks>>
          /\ steps' = steps + 1
     ELSE /\ undoStack' = SubSeq(undoStack, 1, Len(undoStack) - 1)
          /\ Started(UndoTask(undoStack[Len(undoStack)]))
  /\ UNCHANGED vault
  /\ TaskFrame

\* the loop of batchReplaceLink goes on to the next document, or the call
\* ends with the push of its entry
Continue(k, t) ==
  IF t.file < NumFiles
  THEN /\ tasks' = [tasks EXCEPT
                      !.flight[k] = [t EXCEPT !.file = @ + 1, !.at = "read"]]
       /\ UNCHANGED undoStack
  ELSE /\ tasks' = [tasks EXCEPT !.flight = Without(@, k)]
       /\ undoStack' = IF Len(t.batchOps) > 0
                       THEN PushUndo(undoStack, t.batchOps)
                       ELSE undoStack

\* vault.read resolves with the content the document has now; a changed
\* document is handed to vault.modify
ReadResolves(k) ==
  /\ k \in DOMAIN tasks.flight
  /\ tasks.flight[k].kind = "batch" /\ tasks.flight[k].at = "read"
  /\ LET t == tasks.flight[k]
         content == vault[t.file]
         newContent == Rewritten(content, t.oldLink, t.newLink).newContent
     IN IF content # newContent
        THEN /\ tasks' = [tasks EXCEPT
                            !.flight[k] = [t EXCEPT !.at = "write",
                                                    !.content = content,
                                                    !.newContent = newContent]]
             /\ UNCHANGED undoStack
        ELSE Continue(k, t)
  /\ UNCHANGED <<vault, steps>>
  /\ TaskFrame

\* vault.modify of a batch resolves: the host has written the document, the
\* call records the operation and goes on
WriteResolves(k) ==
  /\ k \in DOMAIN tasks.flight
  /\ tasks.flight[k].kind = "batch" /\ tasks.flight[k].at = "write"
  /\ LET t == tasks.flight[k] IN
     /\ vault' = [vault EXCEPT ![t.file] = t.newContent]
     /\ Continue(k, [t EXCEPT
                       !.batchOps = Append(@, [file |-> t.file,
                                               oldContent |-> t.content,
                                               newContent |-> t.newContent])])
  /\ UNCHANGED steps
  /\ TaskFrame

\* vault.modify of an undo resolves: the document holds op.oldContent, the
\* loop goes on to the next operation or the call returns true
UndoResolves(k) ==
  /\ k \in DOMAIN tasks.flight
  /\ tasks.flight[k].kind = "undo"
  /\ LET t == tasks.flight[k]
         op == t.batchOps[t.i]
     IN /\ vault' = [vault EXCEPT ![op.file] = op.oldContent]
        /\ tasks' = [tasks EXCEPT
                       !.flight = IF t.i < Len(t.batchOps)
                                  THEN [@ EXCEPT ![k] = [t EXCEPT !.i = @ + 1]]
                                  ELSE Without(@, k)]
  /\ UNCHANGED <<undoStack, steps>>
  /\ TaskFrame

InitTasks ==
  /\ vault \in [Files -> UndoDocs]
  /\ \A f \in Files \ {1} : vault[f] = DocWiki
  /\ undoStack = <<>>
  /\ call = NoCall
  /\ pre = [vault |-> <<>>, undoStack |-> <<>>]
  /\ run = NoRun
  /\ steps = 0
  /\ SeqIdle
  /\ LinkIdle
  /\ sorter = NoSorter
  /\ inserter = NoInserter
  /\ tasks = [NoTasks EXCEPT !.origin = vault]

NextTasks ==
  \/ /\ steps < MaxCalls
     /\ \E o \in UndoLinks, n \in UndoLinks : StartBatch(o, n)
  \/ /\ steps < MaxCalls
     /\ StartRename(PathA, PathB)
  \/ /\ steps < MaxCalls
     /\ StartUndo
  \/ \E k \in 1..MaxInFlight : ReadResolves(k)
  \/ \E k \in 1..MaxInFlight : WriteResolves(k)
  \/ \E k \in 1..MaxInFlight : UndoResolves(k)

SpecTasks == InitTasks /\ [][NextTasks]_vars

\* documents and links with regular-expression and replacement characters
MaxRewrites == 2

InitRewrite == InitWith(AllDocs)

NextRewrite ==
  /\ steps < MaxRewrites
  /\ \E o \in AllOld, n \in AllNew : batchReplaceLink(o, n, FALSE, NoFailure)

SpecRewrite == InitRewrite /\ [][NextRewrite]_vars

---------------------------------------------------------------------------
(* The plugin's handlers around the detector                               *)

\* a step of the detector that leaves the documents alone
BatchIdle ==
  /\ UNCHANGED batchVars
  /\ steps' = steps + 1

\* a detectSequence(tb, file) call: the cache after it and the record of it
Detected(file, d) ==
  [cache |-> d.cache,
   seq |-> [called |-> TRUE, file |-> file, info |-> d.info, hit |-> d.hit,
            dropped |-> {}, event |-> "none", returned |-> "none",
            opened |-> 0]]

\* Navigator.getSequenceInfo on the files ns with cache c
SequenceInfoOf(tb, ns, c, act, st, t) ==
  IF act = 0 THEN [cache |-> c, seq |-> NoDetect]
  ELSE Detected(act, detectSequence(tb, ns, c, act, st.customPatterns, t))

\* updateStatusBar
UpdateStatusBar(tb, ns, c, act, st, t) ==
  IF ~st.showSequenceInStatusBar THEN [cache |-> c, seq |-> NoDetect]
  ELSE SequenceInfoOf(tb, ns, c, act, st, t)

\* the handler of event leaves the cache kept to updateStatusBar; dropped is
\* what it removed from the cache before
Shown(event, kept, bar) ==
  /\ cache' = bar.cache
  /\ seq' = [bar.seq EXCEPT !.dropped = DOMAIN cache \ DOMAIN kept,
                            !.event = event]

\* updateStatusBar at the end of a handler that kept the cache kept
StatusBar(event, tb, ns, kept, act) ==
  Shown(event, kept, UpdateStatusBar(tb, ns, kept, act, settings, now))

PathFree(ns, folder, name) ==
  \A g \in NoteIds :
    ns[g].st = "live" => Path(ns, g) # PathOf(folder, name)

\* the host makes file f active: the 'file-open' handler
FileOpen(tb, f) ==
  /\ notes[f].st = "live"
  /\ active # f
  /\ active' = f
  /\ StatusBar("file-open", tb, notes, cache, f)
  /\ UNCHANGED <<linkVars, toolVars, notes, now, settings, got, stored>>
  /\ BatchIdle

\* the host leaves no file active: the 'active-leaf-change' handler
LeafChange(tb) ==
  /\ active # 0
  /\ active' = 0
  /\ StatusBar("active-leaf-change", tb, notes, cache, 0)
  /\ UNCHANGED <<linkVars, toolVars, notes, now, settings, got, stored>>
  /\ BatchIdle

\* a click on the status bar item: Navigator.getSequenceInfo()
getSequenceInfo(tb) ==
  /\ settings.showSequenceInStatusBar
  /\ active # 0
  /\ Shown("click", cache,
           SequenceInfoOf(tb, notes, cache, active, settings, now))
  /\ UNCHANGED <<linkVars, toolVars, notes, now, settings, active, got, stored>>
  /\ BatchIdle

\* the host creates file f: the 'create' handler
CreateNote(tb, f, folder, name) ==
  /\ notes[f].st = "none"
  /\ \A g \in NoteIds : g < f => notes[g].st # "none"
  /\ PathFree(notes, folder, name)
  /\ notes' = [notes EXCEPT ![f] = Note(folder, name)]
  /\ StatusBar("create", tb, notes', clearCache, active)
  /\ UNCHANGED <<linkVars, toolVars, now, settings, active, got, stored>>
  /\ BatchIdle

\* the host renames or moves file f: the 'rename' handler
RenameNote(tb, f, folder, name) ==
  /\ notes[f].st = "live"
  /\ PathFree(notes, folder, name)
  /\ notes' = [notes EXCEPT ![f] = Note(folder, name)]
  /\ IF settings.autoUpdateLinks
     THEN LinksOnRename(Path(notes, f), PathOf(folder, name), NoFailure)
     ELSE BatchIdle
  /\ StatusBar("rename", tb, notes',
               invalidateFile(invalidateFile(cache, Path(notes, f)),
                              PathOf(folder, name)),
               active)
  /\ UNCHANGED <<linkVars, toolVars, now, settings, active, got, stored>>

\* the host deletes file f, which is not the active one: the 'delete' handler
DeleteNote(tb, f) ==
  /\ notes[f].st = "live"
  /\ active # f
  /\ notes' = [notes EXCEPT ![f].st = "gone"]
  /\ StatusBar("delete", tb, notes', invalidateFile(cache, Path(notes, f)),
               active)
  /\ UNCHANGED <<linkVars, toolVars, now, settings, active, got, stored>>
  /\ BatchIdle

\* the user changes the custom patterns: saveSettings, updatePatterns
saveSettings(patterns) ==
  /\ patterns # settings.customPatterns
  /\ settings' = [settings EXCEPT !.customPatterns = patterns]
  /\ cache' = EmptyCache
  /\ seq' = [NoDetect EXCEPT !.dropped = DOMAIN cache, !.event = "settings"]
  /\ UNCHANGED <<linkVars, toolVars, notes, now, active, got, stored>>
  /\ BatchIdle

\* time passes
Tick(d) ==
  /\ now' = now + d
  /\ seq' = NoDetect
  /\ got' = NoGet
  /\ UNCHANGED <<linkVars, toolVars, notes, cache, settings, active, stored>>
  /\ BatchIdle

---------------------------------------------------------------------------
(* Navigator                                                               *)

\* getNextIndex(sequence): an index from 0, -1 for no next file
getNextIndex(sequence, st) ==
  IF sequence.currentIndex + 1 >= Len(sequence.files)
  THEN (IF st.circularNavigation THEN 0 ELSE -1)
  ELSE sequence.currentIndex + 1

\* getPreviousIndex(sequence): an index from 0, -1 for no previous file
getPreviousIndex(sequence, st) ==
  IF sequence.currentIndex - 1 < 0
  THEN (IF st.circularNavigation THEN Len(sequence.files) - 1 ELSE -1)
  ELSE sequence.currentIndex - 1

\* the index navigateNext or navigatePrevious goes to
IndexTo(event, sequence, st) ==
  IF event = "next" THEN getNextIndex(sequence, st)
  ELSE getPreviousIndex(sequence, st)

\* the record of a navigation from the active file: the detectSequence call
\* d, what the navigation returned and the file it opened
Navigated(event, d, returned, opened) ==
  [called |-> TRUE, file |-> active, info |-> d.info, hit |-> d.hit,
   dropped |-> {}, event |-> event, returned |-> returned,
   opened |-> opened]

\* the navigation returned false after the detectSequence call d; the
\* callback of the command goes on to updateStatusBar
NotNavigated(event, tb, d) ==
  /\ active' = active
  /\ cache' = UpdateStatusBar(tb, notes, d.cache, active, settings, now).cache
  /\ seq' = Navigated(event, d, "false", 0)

\* openFile(file) opened the file: the 'file-open' handler and the callback
\* of the command call updateStatusBar
Opened(event, tb, d, file) ==
  /\ active' = file
  /\ cache' = UpdateStatusBar(tb, notes, d.cache, file, settings, now).cache
  /\ seq' = Navigated(event, d, "true", file)

\* openFile(file) of a file the vault no longer holds: the host rejects, and
\* the navigation with it, or it resolves and no file is opened
NotOpened(event, tb, d, rejects) ==
  /\ active' = active
  /\ cache' = IF rejects THEN d.cache
              ELSE UpdateStatusBar(tb, notes, d.cache, active, settings,
                                   now).cache
  /\ seq' = Navigated(event, d, IF rejects THEN "rejected" ELSE "true", 0)

\* navigateNext and navigatePrevious after their detectSequence call d, with
\* the index i they go to
NavigateTo(event, tb, d, i, rejects) ==
  IF ~d.info.ok \/ i = -1 THEN NotNavigated(event, tb, d)
  ELSE IF notes[d.info.files[i + 1]].st = "live"
  THEN Opened(event, tb, d, d.info.files[i + 1])
  ELSE NotOpened(event, tb, d, rejects)

\* navigateNext and navigatePrevious with their detectSequence call d
NavigateWith(event, tb, d, rejects) ==
  NavigateTo(event, tb, d, IndexTo(event, d.info, settings), rejects)

\* the commands navigate-next and navigate-previous
Navigate(event, tb, rejects) ==
  /\ IF active = 0
     THEN /\ seq' = [NoDetect EXCEPT !.event = event, !.returned = "false"]
          /\ UNCHANGED <<active, cache>>
     ELSE NavigateWith(event, tb,
                       detectSequence(tb, notes, cache, active,
                                      settings.customPatterns, now),
                       rejects)
  /\ UNCHANGED <<linkVars, toolVars, notes, now, settings, got, stored>>
  /\ BatchIdle

navigateNext(tb, rejects) == Navigate("next", tb, rejects)

navigatePrevious(tb, rejects) == Navigate("previous", tb, rejects)

\* the toggle 'Circular navigation' of the settings tab: saveSettings calls
\* updatePatterns, which clears the cache
setCircularNavigation(value) ==
  /\ settings.circularNavigation # value
  /\ settings' = [settings EXCEPT !.circularNavigation = value]
  /\ cache' = EmptyCache
  /\ seq' = [NoDetect EXCEPT !.dropped = DOMAIN cache, !.event = "settings"]
  /\ UNCHANGED <<linkVars, toolVars, notes, now, active, got, stored>>
  /\ BatchIdle

---------------------------------------------------------------------------
(* The Cache class, called directly                                        *)

Cache_set(key, value) ==
  /\ cache' = CacheSet(cache, key, value, now)
  /\ stored' = CacheSet(stored, key, value, now)
  /\ got' = NoGet
  /\ UNCHANGED <<linkVars, toolVars, notes, now, settings, active, seq>>
  /\ BatchIdle

GetReturn(key, r) ==
  /\ cache' = r.cache
  /\ got' = [called |-> TRUE, key |-> key, hit |-> r.hit, value |-> r.value]

Cache_get(key) ==
  /\ GetReturn(key, CacheGet(cache, key, now))
  /\ UNCHANGED <<linkVars, toolVars, notes, now, settings, active, seq, stored>>
  /\ BatchIdle

Cache_delete(key) ==
  /\ cache' = CacheDelete(cache, key)
  /\ stored' = CacheDelete(stored, key)
  /\ got' = NoGet
  /\ UNCHANGED <<linkVars, toolVars, notes, now, settings, active, seq>>
  /\ BatchIdle

Cache_clear ==
  /\ cache' = EmptyCache
  /\ stored' = EmptyCache
  /\ got' = NoGet
  /\ UNCHANGED <<linkVars, toolVars, notes, now, settings, active, seq>>
  /\ BatchIdle

---------------------------------------------------------------------------
(* The detector and the handlers around it                                 *)

\* bound of the model: handler runs in a behaviour
MaxSeqOps == 3

\* the folders the model starts from: the files of each, in the order the
\* host enumerates them
StartFolders ==
  {<<NameN10, NameN2, NameN1Png>>,
   <<NameN2, NameM3>>,
   <<NameJan20, NameJan15, NameFeb01>>,
   <<NameFeb01, NameJan15>>,
   <<Name12, Name7>>,
   <<NameX, NameN2>>}

StartNotes(names) ==
  [f \in NoteIds |->
     IF f <= Len(names) THEN Note(FolderNotes, names[f]) ELSE NoNote]

\* the names the host gives to the files it creates
CreateNames == {NameN3, NameFeb01}

InitSeq ==
  /\ vault = [f \in Files |-> DocSeq]
  /\ undoStack = <<>>
  /\ call = NoCall
  /\ pre = [vault |-> <<>>, undoStack |-> <<>>]
  /\ run = NoRun
  /\ steps = 0
  /\ \E names \in StartFolders : notes = StartNotes(names)
  /\ cache = EmptyCache
  /\ now = 0
  /\ \E p \in PatternSettings :
       settings = [DefaultSettings EXCEPT !.customPatterns = p]
  /\ active = 0
  /\ seq = NoDetect
  /\ got = NoGet
  /\ stored = EmptyCache
  /\ LinkIdle
  /\ ToolIdle

NextSeq ==
  \E tb \in {Tables} :
    \/ /\ steps < MaxSeqOps
       /\ \E f \in NoteIds : FileOpen(tb, f)
    \/ /\ steps < MaxSeqOps
       /\ LeafChange(tb)
    \/ /\ steps < MaxSeqOps
       /\ getSequenceInfo(tb)
    \/ /\ steps < MaxSeqOps
       /\ \E f \in NoteIds, d \in Folders, n \in CreateNames :
            CreateNote(tb, f, d, n)
    \/ /\ steps < MaxSeqOps
       /\ \E f \in NoteIds, d \in Folders :
            \E n \in {notes[f].name, NameN3} : RenameNote(tb, f, d, n)
    \/ /\ steps < MaxSeqOps
       /\ \E f \in NoteIds : DeleteNote(tb, f)
    \/ /\ steps < MaxSeqOps
       /\ \E p \in PatternSettings : saveSettings(p)
    \/ /\ steps < MaxSeqOps
       /\ Tick(CacheMaxAge + 1)

SpecSeq == InitSeq /\ [][NextSeq]_vars

\* the comparator alone: naturalSort(a, b) and naturalSort(b, a)
Compare(tb, a, b) ==
  /\ sorter' = [called |-> TRUE, a |-> a, b |-> b,
                ab |-> tb.compare[a, b], ba |-> tb.compare[b, a]]
  /\ UNCHANGED <<batchVars, seqVars, linkVars, tasks, inserter, steps>>

InitSort == InitWith({DocSeq})

NextSort ==
  \E tb \in {Tables} : \E a \in SortTexts, b \in SortTexts : Compare(tb, a, b)

SpecSort == InitSort /\ [][NextSort]_vars

\* the navigation commands over a vault whose notes are deleted
MaxNavOps == 4

NavFolders ==
  {<<NameN2, NameN10, NameN3>>,
   <<NameN2, NameN02, NameN10>>,
   <<NameN02, NameN2, NameN10>>,
   <<NameN10, NameN2, NameN1Png>>,
   <<NameJan20, NameJan15, NameFeb01>>,
   <<NameX, NameN2>>}

InitNav ==
  /\ vault = [f \in Files |-> DocSeq]
  /\ undoStack = <<>>
  /\ call = NoCall
  /\ pre = [vault |-> <<>>, undoStack |-> <<>>]
  /\ run = NoRun
  /\ steps = 0
  /\ \E names \in NavFolders : notes = StartNotes(names)
  /\ cache = EmptyCache
  /\ now = 0
  /\ \E p \in PatternSettings :
       settings = [DefaultSettings EXCEPT !.customPatterns = p]
  /\ active = 0
  /\ seq = NoDetect
  /\ got = NoGet
  /\ stored = EmptyCache
  /\ LinkIdle
  /\ ToolIdle

NextNav ==
  \E tb \in {Tables} :
    \/ /\ steps < MaxNavOps
       /\ \E f \in NoteIds : FileOpen(tb, f)
    \/ /\ steps < MaxNavOps
       /\ \E rejects \in BOOLEAN : navigateNext(tb, rejects)
    \/ /\ steps < MaxNavOps
       /\ \E rejects \in BOOLEAN : navigatePrevious(tb, rejects)
    \/ /\ steps < MaxNavOps
       /\ \E f \in NoteIds : DeleteNote(tb, f)
    \/ /\ steps < MaxNavOps
       /\ \E value \in BOOLEAN : setCircularNavigation(value)

SpecNav == InitNav /\ [][NextNav]_vars

---------------------------------------------------------------------------
(* LinkInserter                                                            *)

\* the characters U+2190 and U+2192, each one element of a text
LeftArrow == "<-"
RightArrow == "->"

\* the white space String.prototype.trim removes
WhiteSpace == {" ", "\n", "\r", "\t"}

RECURSIVE trimStart(_)
trimStart(t) ==
  IF t # <<>> /\ Head(t) \in WhiteSpace THEN trimStart(Tail(t)) ELSE t

RECURSIVE trimEnd(_)
trimEnd(t) ==
  IF t # <<>> /\ t[Len(t)] \in WhiteSpace
  THEN trimEnd(SubSeq(t, 1, Len(t) - 1))
  ELSE t

trim(t) == trimEnd(trimStart(t))

\* content.split('\n')
RECURSIVE split(_)
split(content) ==
  IF \A i \in DOMAIN content : content[i] # "\n" THEN <<content>>
  ELSE LET i == CHOOSE k \in DOMAIN content :
                  /\ content[k] = "\n"
                  /\ \A j \in 1..(k - 1) : content[j] # "\n"
       IN <<SubSeq(content, 1, i - 1)>>
            \o split(SubSeq(content, i + 1, Len(content)))

\* lines.join('\n')
RECURSIVE join(_, _)
join(lines, sep) ==
  IF lines = <<>> THEN <<>>
  ELSE IF Len(lines) = 1 THEN lines[1]
  ELSE lines[1] \o sep \o join(Tail(lines), sep)

\* String.prototype.includes
includes(text, part) ==
  \E i \in 1..(Len(text) - Len(part) + 1) :
    SubSeq(text, i, i + Len(part) - 1) = part

\* /\[\[.+?\]\]/
WikiLinkTestSource ==
  <<"\\", "[", "\\", "[", ".", "+", "?", "\\", "]", "\\", "]">>

WikiLinkTestRegExp == RegExp(WikiLinkTestSource)

PreviousWord ==
  <<"P", "r", "e", "v", "i", "o", "u", "s">>

NextWord ==
  <<"N", "e", "x", "t">>

looksLikeNavigationSection(content) ==
  LET trimmed == trim(content) IN
  /\ Search(WikiLinkTestRegExp, trimmed, 1).ok
  /\ \/ includes(trimmed, <<LeftArrow>>)
     \/ includes(trimmed, <<RightArrow>>)
     \/ includes(trimmed, PreviousWord)
     \/ includes(trimmed, NextWord)
     \/ includes(trimmed, <<"|">>)

\* the horizontal rules removeExistingLinks looks for
RuleLines ==
  {<<"-", "-", "-">>, <<"*", "*", "*">>, <<"_", "_", "_">>}

\* the loop of removeExistingLinks from line i (counted from 1) down: the
\* last rule line with a navigation section after it, 0 for none
RECURSIVE LastHr(_, _)
LastHr(lines, i) ==
  IF i = 0 THEN 0
  ELSE IF /\ trim(lines[i]) \in RuleLines
          /\ looksLikeNavigationSection(
               join(SubSeq(lines, i + 1, Len(lines)), <<"\n">>))
  THEN i
  ELSE LastHr(lines, i - 1)

removeExistingLinks(content) ==
  LET lines == split(content)
      lastHr == LastHr(lines, Len(lines))
  IN IF lastHr > 0
     THEN join(SubSeq(lines, 1, lastHr - 1), <<"\n">>)
     ELSE content

\* TFile.basename
Basename(ns, f) == getBasename(ns[f].name)

\* generateNavigationLinks(prevFile, nextFile); 0 is null
generateNavigationLinks(ns, prevFile, nextFile) ==
  LET prevPart == <<LeftArrow, " ", "[", "[">> \o Basename(ns, prevFile)
                    \o <<"]", "]">>
      nextPart == <<"[", "[">> \o Basename(ns, nextFile)
                    \o <<"]", "]", " ", RightArrow>>
      parts == (IF prevFile # 0 THEN <<prevPart>> ELSE <<>>)
                 \o (IF nextFile # 0 THEN <<nextPart>> ELSE <<>>)
  IN join(parts, <<" ", "|", " ">>)

\* '\n\n---\n\n'
NavigationRule ==
  <<"\n", "\n", "-", "-", "-", "\n", "\n">>

\* cleanedContent.trim() + '\n\n---\n\n' + navLinks
ContentWithLinks(ns, content, prevFile, nextFile) ==
  trim(removeExistingLinks(content)) \o NavigationRule
    \o generateNavigationLinks(ns, prevFile, nextFile)

\* getPreviousFile(sequence); 0 is null
getPreviousFile(sequence, st) ==
  IF sequence.currentIndex > 0
  THEN sequence.files[sequence.currentIndex]
  ELSE IF st.circularNavigation /\ Len(sequence.files) > 1
  THEN sequence.files[Len(sequence.files)]
  ELSE 0

\* getNextFile(sequence); 0 is null
getNextFile(sequence, st) ==
  IF sequence.currentIndex < Len(sequence.files) - 1
  THEN sequence.files[sequence.currentIndex + 2]
  ELSE IF st.circularNavigation /\ Len(sequence.files) > 1
  THEN sequence.files[1]
  ELSE 0

InserterFrame ==
  /\ UNCHANGED <<linkVars, sorter, tasks, notes, now, settings, active, got,
                 stored>>
  /\ BatchIdle

Inserted(op, file, ret, docs, prevFile, nextFile) ==
  inserter' = [inserter EXCEPT !.op = op, !.file = file, !.ret = ret,
                               !.docs = docs, !.prev = prevFile,
                               !.next = nextFile]

\* insertSequenceLinks(file) with its detectSequence call d
InsertWith(file, d) ==
  LET prevFile == getPreviousFile(d.info, settings)
      nextFile == getNextFile(d.info, settings)
  IN
  /\ cache' = d.cache
  /\ seq' = Detected(file, d).seq
  /\ IF ~d.info.ok
     THEN Inserted("insert", file, FALSE, inserter.docs, 0, 0)
     ELSE IF prevFile = 0 /\ nextFile = 0
     THEN Inserted("insert", file, FALSE, inserter.docs, 0, 0)
     ELSE Inserted("insert", file, TRUE,
                   [inserter.docs EXCEPT ![file] =
                      ContentWithLinks(notes, @, prevFile, nextFile)],
                   prevFile, nextFile)

\* the command insert-sequence-links
insertSequenceLinks(tb) ==
  /\ active # 0
  /\ InsertWith(active, detectSequence(tb, notes, cache, active,
                                       settings.customPatterns, now))
  /\ InserterFrame

\* updateFileLinks(file, prevFile, nextFile)
updateFileLinks(ns, docs, file, prevFile, nextFile) ==
  IF prevFile = 0 /\ nextFile = 0 THEN docs
  ELSE [docs EXCEPT ![file] = ContentWithLinks(ns, @, prevFile, nextFile)]

\* the loop of updateAllSequenceLinks from the file at position i
RECURSIVE UpdateLoop(_, _, _, _, _)
UpdateLoop(ns, docs, files, st, i) ==
  IF i > Len(files) THEN docs
  ELSE
    LET file == files[i]
        prevFile == IF i > 1 THEN files[i - 1] ELSE 0
        nextFile == IF i < Len(files) THEN files[i + 1] ELSE 0
        prev == IF st.circularNavigation /\ prevFile = 0 /\ Len(files) > 1
                THEN files[Len(files)] ELSE prevFile
        next == IF /\ st.circularNavigation /\ prevFile # 0
                   /\ nextFile = 0 /\ Len(files) > 1
                THEN files[1] ELSE nextFile
    IN UpdateLoop(ns, updateFileLinks(ns, docs, file, prev, next),
                  files, st, i + 1)

UpdateWith(d) ==
  /\ cache' = d.cache
  /\ seq' = Detected(active, d).seq
  /\ IF ~d.info.ok
     THEN Inserted("update", active, FALSE, inserter.docs, 0, 0)
     ELSE Inserted("update", active, TRUE,
                   UpdateLoop(notes, inserter.docs, d.info.files, settings, 1),
                   0, 0)

\* the command update-all-sequence-links
updateAllSequenceLinks(tb) ==
  /\ IF active = 0
     THEN /\ Inserted("update", 0, FALSE, inserter.docs, 0, 0)
          /\ UNCHANGED <<cache, seq>>
     ELSE UpdateWith(detectSequence(tb, notes, cache, active,
                                    settings.customPatterns, now))
  /\ InserterFrame

\* the host: a file is opened while the documents stay as they are
OpenNote(tb, f) ==
  /\ FileOpen(tb, f)

\* bound of the model: commands in a behaviour
MaxInsertOps == 3

\* the documents the notes start with: plain text, text that ends with a
\* line break, a rule followed by plain text, and front matter followed by
\* a line with an aliased wiki link
TextPlain ==
  <<"a">>

TextLine ==
  <<"a", "\n">>

TextRule ==
  <<"a", "\n", "*", "*", "*", "\n", "b">>

TextFrontMatter ==
  <<"-", "-", "-", "\n", "t", "\n", "-", "-", "-", "\n", "[", "[", "X", "|",
  "y", "]", "]">>

InsertDocs == {TextPlain, TextLine, TextRule, TextFrontMatter}

InsertFolders == {<<NameN2, NameN10, NameN3>>, <<NameN2, NameX, NameN3>>}

InitInsert ==
  /\ vault = [f \in Files |-> DocSeq]
  /\ undoStack = <<>>
  /\ call = NoCall
  /\ pre = [vault |-> <<>>, undoStack |-> <<>>]
  /\ run = NoRun
  /\ steps = 0
  /\ \E names \in InsertFolders : notes = StartNotes(names)
  /\ cache = EmptyCache
  /\ now = 0
  /\ settings = DefaultSettings
  /\ active = 0
  /\ seq = NoDetect
  /\ got = NoGet
  /\ stored = EmptyCache
  /\ LinkIdle
  /\ sorter = NoSorter
  /\ tasks = NoTasks
  /\ \E docs \in [NoteIds -> InsertDocs] :
       inserter = [NoInserter EXCEPT !.docs = docs, !.origin = docs]

NextInsert ==
  \E tb \in {Tables} :
    \/ /\ steps < MaxInsertOps
       /\ \E f \in NoteIds : OpenNote(tb, f)
    \/ /\ steps < MaxInsertOps
       /\ insertSequenceLinks(tb)
    \/ /\ steps < MaxInsertOps
       /\ updateAllSequenceLinks(tb)
    \/ /\ steps < MaxInsertOps
       /\ \E value \in BOOLEAN : setCircularNavigation(value)

SpecInsert == InitInsert /\ [][NextInsert]_vars

\* the Cache class alone
MaxCacheOps == 5

CacheKeys == {PathOf(FolderNotes, NameN2), PathOf(FolderNotes, NameN10)}

CacheValues ==
  {[ok |-> TRUE, files |-> <<1, 2>>, currentIndex |-> 0,
    pattern |-> <<"N">>, type |-> "numeric"],
   [ok |-> TRUE, files |-> <<2, 1>>, currentIndex |-> 1,
    pattern |-> <<"N">>, type |-> "numeric"]}

\* half the expiry duration, and one millisecond more
CacheTicks == {CacheMaxAge \div 2, CacheMaxAge \div 2 + 1}

InitCache == InitWith({DocSeq})

NextCache ==
  \/ /\ steps < MaxCacheOps
     /\ \E k \in CacheKeys, v \in CacheValues : Cache_set(k, v)
  \/ /\ steps < MaxCacheOps
     /\ \E k \in CacheKeys : Cache_get(k)
  \/ /\ steps < MaxCacheOps
     /\ \E k \in CacheKeys : Cache_delete(k)
  \/ /\ steps < MaxCacheOps
     /\ Cache_clear
  \/ /\ steps < MaxCacheOps
     /\ \E d \in CacheTicks : Tick(d)

SpecCache == InitCache /\ [][NextCache]_vars

---------------------------------------------------------------------------
(* The link manager over a vault whose reference index lags behind         *)

\* a step of the link manager or of the host under it
LinkStep ==
  UNCHANGED <<batchVars, seqVars, toolVars, steps>>

\* validateAllLinks(): it has no await, so nothing runs in between
validateAllLinks ==
  /\ links' = [NoLinks EXCEPT
                 !.op = "validateAllLinks",
                 !.validation = ValidationResult(listing, metadataCache, now)]
  /\ UNCHANGED <<listing, metadataCache>>
  /\ LinkStep

\* getOrphanedNotes()
getOrphanedNotes ==
  /\ links' = [NoLinks EXCEPT
                 !.op = "getOrphanedNotes",
                 !.orphaned = OrphanedNotes(listing, metadataCache)]
  /\ UNCHANGED <<listing, metadataCache>>
  /\ LinkStep

\* getLinkStats(file)
getLinkStats(file) ==
  /\ links' = [NoLinks EXCEPT
                 !.op = "getLinkStats",
                 !.file = file,
                 !.stats = LinkStats(listing, metadataCache, file)]
  /\ UNCHANGED <<listing, metadataCache>>
  /\ LinkStep

\* the host deletes the file at path f; its reference index is not told yet
DeleteFile(f) ==
  /\ f \in listing
  /\ listing' = listing \ {f}
  /\ links' = NoLinks
  /\ UNCHANGED metadataCache
  /\ LinkStep

\* the host creates a file at path f
CreateFile(f) ==
  /\ f \notin listing
  /\ listing' = listing \cup {f}
  /\ links' = NoLinks
  /\ UNCHANGED metadataCache
  /\ LinkStep

\* the host's reference index reads the markdown file f
IndexFile(f, fc) ==
  /\ f \in listing \cap MarkdownDocs
  /\ metadataCache.files[f] # fc
  /\ metadataCache' = [metadataCache EXCEPT !.files[f] = fc]
  /\ links' = NoLinks
  /\ UNCHANGED listing
  /\ LinkStep

\* the host's reference index drops the cache of the deleted file f
ForgetFile(f) ==
  /\ f \notin listing
  /\ metadataCache.files[f].cached
  /\ metadataCache' = [metadataCache EXCEPT !.files[f] = NoFileCache]
  /\ links' = NoLinks
  /\ UNCHANGED listing
  /\ LinkStep

\* the host's reference index resolves the linkpath p anew: to a file of
\* the vault or to none
IndexLinkpath(p, target) ==
  /\ target \in listing \cup {0}
  /\ metadataCache.dest[p] # target
  /\ metadataCache' = [metadataCache EXCEPT !.dest[p] = target]
  /\ links' = NoLinks
  /\ UNCHANGED listing
  /\ LinkStep

InitLinks ==
  /\ vault = [f \in Files |-> DocSeq]
  /\ undoStack = <<>>
  /\ call = NoCall
  /\ pre = [vault |-> <<>>, undoStack |-> <<>>]
  /\ run = NoRun
  /\ steps = 0
  /\ SeqIdle
  /\ listing = Docs
  /\ metadataCache = EmptyMetadata
  /\ links = NoLinks
  /\ ToolIdle

NextLinks ==
  \/ validateAllLinks
  \/ getOrphanedNotes
  \/ \E f \in Docs : getLinkStats(f)
  \/ \E f \in Docs : DeleteFile(f)
  \/ \E f \in Docs : CreateFile(f)
  \/ \E f \in Docs, fc \in FileCaches : IndexFile(f, fc)
  \/ \E f \in Docs : ForgetFile(f)
  \/ \E p \in Linkpaths, target \in Docs \cup {0} : IndexLinkpath(p, target)

SpecLinks == InitLinks /\ [][NextLinks]_vars


---------------------------------------------------------------------------
(* Properties of batchReplaceLink and undoLastOperation                    *)

\* C1: in a serial run without edit and without I/O failure, an
\* undoLastOperation() that immediately follows a
\* batchReplaceLink(old, new, false) that changed documents returns true and
\* leaves every document of the vault with the content it had before the batch
C1_RoundTrip ==
  [][(/\ call.op = "batchReplaceLink" /\ ~call.dryRun /\ call.clean
      /\ call.success > 0
      /\ call'.op = "undoLastOperation" /\ call'.failAt = 0)
     => (call'.ret /\ vault' = pre.vault)]_vars

C1_Witness ==
  /\ call.op = "undoLastOperation" /\ call.after = "batchReplaceLink"
  /\ call.ret /\ call.failAt = 0
  /\ run.nb = 1 /\ run.nu = 1
  /\ Len(call.writes) = NumFiles
  /\ vault = run.hist[1] /\ vault # pre.vault

\* C2: without I/O failure, when batchReplaceLink(A, B, false) runs twice in a
\* row on the same vault, the second run reports success = 0 and writes no
\* document
C2_SecondRunIdle ==
  [][(/\ call.op = "batchReplaceLink" /\ ~call.dryRun /\ call.clean
      /\ call'.op = "batchReplaceLink" /\ ~call'.dryRun /\ call'.clean
      /\ call'.oldLink = call.oldLink /\ call'.newLink = call.newLink)
     => (call'.success = 0 /\ call'.writes = <<>> /\ vault' = vault)]_vars

\* C3: batchReplaceLink(old, new, true) and previewChanges(old, new) write no
\* document and leave the undo stack unchanged, and the documents they report
\* as changed, with their new content, are those a call with dryRun = false
\* on the same vault would write
C3_DryRunFrame ==
  (call.op \in {"batchReplaceLink", "previewChanges"} /\ call.dryRun) =>
    LET reads == [f \in Files |->
                    IF call.fail[f] = "read" THEN "read" ELSE "ok"]
        real == BatchOutcome(pre.vault, pre.undoStack, call.oldLink,
                             call.newLink, FALSE, reads)
        reported == SelectSeq(call.operations, LAMBDA o : o.success)
    IN /\ call.writes = <<>>
       /\ vault = pre.vault
       /\ undoStack = pre.undoStack
       /\ [i \in 1..Len(reported) |->
             [file |-> reported[i].file, data |-> reported[i].newContent]]
            = real.writes
       /\ call.success = Len(real.writes)
       /\ call.op = "previewChanges" =>
            [i \in 1..Len(call.preview) |-> call.preview[i].file]
              = [i \in 1..Len(real.writes) |-> real.writes[i].file]

C3_Witness ==
  /\ call.op = "batchReplaceLink" /\ call.dryRun
  /\ call.success = NumFiles
  /\ pre.undoStack # <<>>

\* C4: when the read or the write of one document fails in batchReplaceLink,
\* that document is counted in failed and recorded with success = false, the
\* call returns its result, and every other document is still processed:
\* those whose content changes are written and counted in success
C4_FailureIsolated ==
  (call.op = "batchReplaceLink" /\ \E f \in Files : call.fail[f] # "ok") =>
    LET f == CHOOSE x \in Files : call.fail[x] # "ok"
        rw(g) == Rewritten(pre.vault[g], call.oldLink, call.newLink).newContent
        changes(g) == rw(g) # pre.vault[g]
        fails == call.fail[f] = "read" \/ (changes(f) /\ ~call.dryRun)
        others == {g \in Files \ {f} : changes(g)}
    IN fails =>
         /\ call.failed = 1
         /\ \E i \in DOMAIN call.operations :
              call.operations[i].file = f /\ ~call.operations[i].success
         /\ vault[f] = pre.vault[f]
         /\ call.success = Cardinality(others)
         /\ Len(call.operations) = call.success + call.failed
         /\ \A g \in others :
              /\ \E i \in DOMAIN call.operations :
                   /\ call.operations[i].file = g
                   /\ call.operations[i].success
                   /\ call.operations[i].newContent = rw(g)
              /\ ~call.dryRun => vault[g] = rw(g)
         /\ \A g \in Files \ (others \cup {f}) : vault[g] = pre.vault[g]

C4_Witness ==
  /\ call.op = "batchReplaceLink" /\ ~call.dryRun
  /\ call.fail[1] = "write"
  /\ call.failed = 1 /\ call.success = NumFiles - 1
  /\ vault[1] = pre.vault[1] /\ vault[NumFiles] # pre.vault[NumFiles]

\* part occurs in text
Contains(text, part) ==
  \E i \in 1..(Len(text) - Len(part) + 1) :
    SubSeq(text, i, i + Len(part) - 1) = part

\* C5: for every oldLink, also one with regular-expression metacharacters,
\* batchReplaceLink rewrites the occurrences [[oldLink]], [[oldLink|display]]
\* and [display](oldLink) whose target equals oldLink character for
\* character, rewrites no other text, and fails for no document because of
\* the characters of oldLink
C5_LiteralOldLink ==
  (/\ call.op = "batchReplaceLink" /\ ~call.dryRun /\ call.clean
   /\ call.oldLink # call.newLink) =>
    /\ call.failed = 0
    /\ \A f \in Files :
         LET c == pre.vault[f]
             whole == <<"[", "[">> \o call.oldLink \o <<"]", "]">>
             piped == <<"[", "[">> \o call.oldLink \o <<"|">>
             md    == <<"]", "(">> \o call.oldLink \o <<")">>
         IN /\ Contains(c, whole) => vault[f] # c
            /\ (~Contains(c, whole) /\ ~Contains(c, piped) /\ ~Contains(c, md))
                 => vault[f] = c

\* C6: every occurrence batchReplaceLink matches is replaced by the same link
\* form with the newLink string as given (also one that contains $) as its
\* target and with its display text unchanged: [[old]] becomes [[new]],
\* [[old|d]] becomes [[new|d]] and [d](old) becomes [d](new)
C6_LiteralNewLink ==
  (/\ call.op = "batchReplaceLink" /\ ~call.dryRun /\ call.clean
   /\ call.failed = 0) =>
    \A f \in Files :
      LET o == call.oldLink
          n == call.newLink
          Bare(x) == <<"[", "[">> \o x \o <<"]", "]">>
          Both(x) == <<"[", "[">> \o x \o <<"|", "d", "]", "]", " ">>
                       \o <<"[", "d", "]", "(">> \o x \o <<")">>
      IN /\ pre.vault[f] = Bare(o) => vault[f] = Bare(n)
         /\ pre.vault[f] = Both(o) => vault[f] = Both(n)

\* C7: undoLastOperation removes only the most recently pushed entry and
\* writes back the prior content of that entry's documents in the order they
\* were recorded, which is the order in which batchReplaceLink enumerated
\* them; n undos after n serial batches without failure (n <= 10) that each
\* changed a document restore the vault to its state before the first of
\* these batches
C7_UndoIsLifo ==
  [][/\ (call'.op = "undoLastOperation" /\ undoStack # <<>>) =>
          LET top == undoStack[Len(undoStack)] IN
          /\ undoStack' = SubSeq(undoStack, 1, Len(undoStack) - 1)
          /\ call'.popped = <<top>>
          /\ call'.failAt = 0 =>
               call'.writes =
                 [i \in 1..Len(top.operations) |->
                    [file |-> top.operations[i].file,
                     data |-> top.operations[i].oldContent]]
     /\ call'.pushed =>
          LET ops == undoStack'[Len(undoStack')].operations IN
          /\ \A i, j \in 1..Len(ops) : i < j => ops[i].file < ops[j].file
          /\ [i \in 1..Len(ops) |-> [file |-> ops[i].file,
                                       data |-> ops[i].newContent]]
               = call'.writes
     /\ (run'.nu >= 1 /\ run'.nu <= UndoLimit)
          => vault' = run'.hist[run'.nb - run'.nu + 1]]_vars

C7_Witness ==
  /\ call.op = "undoLastOperation" /\ call.ret
  /\ run.nb = UndoLimit + 1 /\ run.nu = UndoLimit
  /\ vault = run.hist[2] /\ vault # pre.vault
  /\ Len(call.writes) = NumFiles
  /\ undoStack = <<>>

\* C7 as stated: the batches may leave every document as it is, and then one
\* undo after one such batch, itself not preceded by a batch, restores the
\* vault to its state before that batch
C7_AnyBatches ==
  [][/\ (call'.op = "undoLastOperation" /\ undoStack # <<>>) =>
          LET top == undoStack[Len(undoStack)] IN
          /\ undoStack' = SubSeq(undoStack, 1, Len(undoStack) - 1)
          /\ call'.popped = <<top>>
          /\ call'.failAt = 0 =>
               call'.writes =
                 [i \in 1..Len(top.operations) |->
                    [file |-> top.operations[i].file,
                     data |-> top.operations[i].oldContent]]
     /\ call'.pushed =>
          LET ops == undoStack'[Len(undoStack')].operations IN
          /\ \A i, j \in 1..Len(ops) : i < j => ops[i].file < ops[j].file
          /\ [i \in 1..Len(ops) |-> [file |-> ops[i].file,
                                       data |-> ops[i].newContent]]
               = call'.writes
     /\ (run'.nu >= 1 /\ run'.nu <= UndoLimit)
          => vault' = run'.hist[run'.nb - run'.nu + 1]
     /\ (/\ call.op = "batchReplaceLink" /\ ~call.dryRun /\ call.clean
         /\ call.after # "batchReplaceLink"
         /\ call'.op = "undoLastOperation" /\ call'.failAt = 0)
          => vault' = pre.vault]_vars

\* C8: the undo stack never holds more than 10 entries; a push on a stack of
\* 10 drops the oldest entry and keeps the 10 most recent in push order
C8_StackBounded ==
  [][/\ Len(undoStack') <= UndoLimit
     /\ call'.pushed =>
          LET entry == [operations |->
                          [i \in 1..Len(call'.writes) |->
                             [file |-> call'.writes[i].file,
                              oldContent |-> vault[call'.writes[i].file],
                              newContent |-> call'.writes[i].data]]]
          IN undoStack' = IF Len(undoStack) = UndoLimit
                          THEN Append(Tail(undoStack), entry)
                          ELSE Append(undoStack, entry)
     /\ (~call'.pushed /\ call'.op # "undoLastOperation") =>
          undoStack' = undoStack]_vars

C8_Witness ==
  /\ call.pushed
  /\ Len(pre.undoStack) = UndoLimit
  /\ Len(undoStack) = UndoLimit
  /\ undoStack # pre.undoStack

\* C9: when a write fails part-way through undoLastOperation the call returns
\* false, the popped entry is not put back, the documents written before the
\* failure hold their prior content and the others keep their post-batch
\* content; on an empty stack the call returns false and writes nothing
C9_PartialUndo ==
  [][call'.op = "undoLastOperation" =>
       IF undoStack = <<>>
       THEN /\ ~call'.ret
            /\ call'.writes = <<>>
            /\ vault' = vault
            /\ undoStack' = <<>>
       ELSE LET ops == undoStack[Len(undoStack)].operations
                k == call'.failAt
                written == {ops[i].file : i \in 1..(k - 1)}
            IN k \in 1..Len(ops) =>
                 /\ ~call'.ret
                 /\ undoStack' = SubSeq(undoStack, 1, Len(undoStack) - 1)
                 /\ \A i \in 1..(k - 1) :
                      vault'[ops[i].file] = ops[i].oldContent
                 /\ \A f \in Files \ written : vault'[f] = vault[f]
                 /\ call.pushed =>
                      \A i \in k..Len(ops) :
                        vault'[ops[i].file] = ops[i].newContent]_vars

C9_Witness ==
  /\ call.op = "undoLastOperation" /\ call.failAt = 2
  /\ ~call.ret
  /\ Len(call.writes) = 1
  /\ call.popped # <<>>
  /\ Len(call.popped[1].operations) = NumFiles
  /\ vault[1] # pre.vault[1] /\ vault[2] = pre.vault[2]
  /\ undoStack = <<>>


---------------------------------------------------------------------------
(* Properties of the sequence detection                                    *)

\* the notes a SequenceInfo lists
SeqFiles(info) == {info.files[i] : i \in DOMAIN info.files}

\* f is a note whose title is an integer, optionally preceded by a prefix
IsNumbered(ns, f) ==
  /\ IsMarkdown(ns[f].name)
  /\ parsedNumeric(Tables, ns, f).shape \in {"pure", "prefix"}

\* the notes of the folder of file whose title is an integer preceded by the
\* prefix of the title of file
SamePrefix(ns, file) ==
  {f \in NoteIds :
     /\ ns[f].st = "live"
     /\ ns[f].folder = ns[file].folder
     /\ IsNumbered(ns, f)
     /\ parsedNumeric(Tables, ns, f).prefix
          = parsedNumeric(Tables, ns, file).prefix}

\* files is ordered by ascending integer value
AscendingNumbers(ns, files) ==
  \A i \in DOMAIN files : \A j \in DOMAIN files :
    i < j => parsedNumeric(Tables, ns, files[i]).number.val
               <= parsedNumeric(Tables, ns, files[j]).number.val

\* C10: for a note whose title is an integer optionally preceded by a prefix,
\* a detectSequence that computes its result returns exactly the notes of the
\* folder with that prefix followed by an integer, by ascending integer value,
\* when another note of the folder has that shape and prefix, and returns
\* none when no other note has
C10_PrefixedInteger ==
  (seq.called /\ ~seq.hit /\ IsNumbered(notes, seq.file)) =>
    IF SamePrefix(notes, seq.file) \ {seq.file} # {}
    THEN /\ seq.info.ok
         /\ SeqFiles(seq.info) = SamePrefix(notes, seq.file)
         /\ Len(seq.info.files) = Cardinality(SamePrefix(notes, seq.file))
         /\ AscendingNumbers(notes, seq.info.files)
    ELSE ~seq.info.ok

\* the first half of C10 alone: with such a sibling the result is as stated
C10_WithSibling ==
  (/\ seq.called /\ ~seq.hit /\ IsNumbered(notes, seq.file)
   /\ SamePrefix(notes, seq.file) \ {seq.file} # {}) =>
    /\ seq.info.ok
    /\ SeqFiles(seq.info) = SamePrefix(notes, seq.file)
    /\ Len(seq.info.files) = Cardinality(SamePrefix(notes, seq.file))
    /\ AscendingNumbers(notes, seq.info.files)

\* the notes of the folder of file whose title holds a valid date
Dated(ns, file) ==
  {f \in NoteIds :
     /\ ns[f].st = "live"
     /\ IsMarkdown(ns[f].name)
     /\ ns[f].folder = ns[file].folder
     /\ parsedDate(Tables, ns, f).ok}

\* files is ordered by ascending date
AscendingDates(ns, files) ==
  \A i \in DOMAIN files : \A j \in DOMAIN files :
    i < j => parsedDate(Tables, ns, files[i]).time
               <= parsedDate(Tables, ns, files[j]).time

\* C11: for a note whose title holds a valid ISO date, in a folder with
\* another such note, a detectSequence that computes its result uses the
\* date strategy: it returns every note of the folder whose title holds a
\* valid date, by ascending date
C11_DateStrategy ==
  (/\ seq.called /\ ~seq.hit
   /\ seq.file \in Dated(notes, seq.file)
   /\ Dated(notes, seq.file) \ {seq.file} # {}) =>
    /\ seq.info.ok
    /\ seq.info.type = "date"
    /\ SeqFiles(seq.info) = Dated(notes, seq.file)
    /\ Len(seq.info.files) = Cardinality(Dated(notes, seq.file))
    /\ AscendingDates(notes, seq.info.files)

\* the custom patterns that are enabled, compile and match the title of f
MatchingPatterns(ns, f, patterns) ==
  {i \in DOMAIN patterns :
     /\ patterns[i].enabled
     /\ PatternTable[patterns[i].regex].ok
     /\ PatternTable[patterns[i].regex].match[ns[f].name].ok}

FirstPattern(ns, f, patterns) ==
  CHOOSE i \in MatchingPatterns(ns, f, patterns) :
    \A j \in MatchingPatterns(ns, f, patterns) : i <= j

\* the first strategy that matches the title of f: the strategy, and the
\* prefix and suffix it parses
FirstStrategy(ns, f, patterns) ==
  IF parsedNumeric(Tables, ns, f).ok
  THEN [strategy |-> parsedNumeric(Tables, ns, f).shape,
        label |-> <<>>,
        prefix |-> parsedNumeric(Tables, ns, f).prefix,
        suffix |-> parsedNumeric(Tables, ns, f).suffix]
  ELSE IF parsedDate(Tables, ns, f).ok
  THEN [strategy |-> "date", label |-> <<>>, prefix |-> <<>>,
        suffix |-> <<>>]
  ELSE IF MatchingPatterns(ns, f, patterns) # {}
  THEN [strategy |-> "custom",
        label |-> patterns[FirstPattern(ns, f, patterns)].name,
        prefix |-> PatternTable[patterns[FirstPattern(ns, f, patterns)].regex]
                     .match[ns[f].name].prefix,
        suffix |-> PatternTable[patterns[FirstPattern(ns, f, patterns)].regex]
                     .match[ns[f].name].suffix]
  ELSE [strategy |-> "none", label |-> <<>>, prefix |-> <<>>,
        suffix |-> <<>>]

\* the strategy a SequenceInfo was found by
StrategyOf(info) ==
  [type |-> info.type,
   label |-> IF info.type = "custom" THEN info.pattern ELSE <<>>]

\* the strategy of FirstStrategy, as a SequenceInfo names it
TypeOf(first) ==
  [type |-> IF first.strategy \in {"pure", "prefix", "complex"}
            THEN "numeric" ELSE first.strategy,
   label |-> first.label]

\* C12: a sequence that detectSequence computes for a note was found by the
\* first strategy that matches the title of the note: when that strategy
\* finds fewer than 2 notes the result is none
C12_FirstStrategyOnly ==
  (seq.called /\ ~seq.hit /\ seq.info.ok
   /\ IsMarkdown(notes[seq.file].name)) =>
    StrategyOf(seq.info)
      = TypeOf(FirstStrategy(notes, seq.file, settings.customPatterns))

\* C13: any two notes of a numeric or custom sequence that detectSequence
\* computes have titles with the same first matching strategy and the same
\* parsed prefix and suffix
C13_SameParse ==
  (seq.called /\ ~seq.hit /\ seq.info.ok
   /\ seq.info.type \in {"numeric", "custom"}) =>
    \A f \in SeqFiles(seq.info) : \A g \in SeqFiles(seq.info) :
      FirstStrategy(notes, f, settings.customPatterns)
        = FirstStrategy(notes, g, settings.customPatterns)

\* C14: every note of a SequenceInfo that detectSequence returns is in the
\* folder of the queried note
C14_SameFolder ==
  (seq.called /\ seq.info.ok) =>
    \A f \in SeqFiles(seq.info) : notes[f].folder = notes[seq.file].folder

\* C15: in a SequenceInfo that detectSequence returns, currentIndex is the
\* place of the queried file in the list
C15_CurrentIndex ==
  (seq.called /\ seq.info.ok) =>
    /\ seq.info.currentIndex >= 0
    /\ seq.info.currentIndex < Len(seq.info.files)
    /\ seq.info.files[seq.info.currentIndex + 1] = seq.file

\* C16: get(k) returns the value of the last set(k, v) that neither delete(k)
\* nor clear() followed, as long as no more than the expiry duration has
\* passed since that set, whatever gets came in between; otherwise it returns
\* none and leaves no entry for k
C16_CacheLifetime ==
  got.called =>
    IF /\ got.key \in DOMAIN stored
       /\ now - stored[got.key].timestamp <= CacheMaxAge
    THEN got.hit /\ got.value = stored[got.key].value
    ELSE ~got.hit /\ got.key \notin DOMAIN cache

\* a get returns the value exactly when the expiry duration has passed
C16_Witness ==
  /\ got.called
  /\ got.hit
  /\ now - stored[got.key].timestamp = CacheMaxAge

\* the entry of path is not in the cache after the step, or the step put it
\* there with what it computed from the files after the step
AbsentOrFresh(path) ==
  \/ path \notin DOMAIN cache'
  \/ /\ seq'.called
     /\ ~seq'.hit
     /\ path = Path(notes', seq'.file)
     /\ cache'[path] = [value |-> seq'.info, timestamp |-> now']
     /\ seq'.info = ComputeSequence(Tables, notes', seq'.file,
                                    settings'.customPatterns)

\* C17: a rename removes the cached SequenceInfo of the old and of the new
\* path, a delete that of the deleted path and a create every cached
\* SequenceInfo: what the cache holds for these paths after the handler was
\* computed by it from the live vault
C17_Invalidation ==
  [][\A f \in NoteIds :
       /\ (notes[f].st = "live" /\ notes'[f].st = "live"
           /\ Path(notes, f) # Path(notes', f)) =>
            AbsentOrFresh(Path(notes, f)) /\ AbsentOrFresh(Path(notes', f))
       /\ (notes[f].st = "live" /\ notes'[f].st = "gone") =>
            AbsentOrFresh(Path(notes, f))
       /\ (notes[f].st = "none" /\ notes'[f].st = "live") =>
            \A path \in DOMAIN cache \cup DOMAIN cache' :
              AbsentOrFresh(path)]_vars

\* a rename removed the SequenceInfo of the renamed note from the cache and
\* the status bar computed it anew
C17_Witness ==
  /\ seq.event = "rename"
  /\ seq.dropped # {}
  /\ seq.called
  /\ ~seq.hit
  /\ seq.info.ok

\* the patterns that compile
Compiling(patterns) ==
  SelectSeq(patterns, LAMBDA p : PatternTable[p.regex].ok)

\* C18: a custom pattern whose regular expression does not compile is passed
\* over: detectSequence computes what it computes without that pattern
C18_BrokenPatternSkipped ==
  (seq.called /\ ~seq.hit) =>
    seq.info = ComputeSequence(Tables, notes, seq.file,
                               Compiling(settings.customPatterns))

\* a sequence found by the pattern after one that does not compile
C18_Witness ==
  /\ seq.called
  /\ ~seq.hit
  /\ seq.info.ok
  /\ seq.info.type = "custom"
  /\ \E i \in DOMAIN settings.customPatterns :
       /\ settings.customPatterns[i].name = seq.info.pattern
       /\ \E j \in 1..(i - 1) :
            /\ settings.customPatterns[j].enabled
            /\ ~PatternTable[settings.customPatterns[j].regex].ok


---------------------------------------------------------------------------
(* Properties of the link manager                                          *)

\* the link and embed occurrences of file f in the reference index: the
\* file, the list and the place in the list
OccurrencesOf(mc, f) ==
  {<<f, "link", i>> : i \in 1..Len(mc.files[f].links)}
    \cup {<<f, "embed", i>> : i \in 1..Len(mc.files[f].embeds)}

\* the occurrences of the markdown files of the vault
Occurrences(ls, mc) ==
  UNION {OccurrencesOf(mc, f) : f \in ls \cap MarkdownDocs}

\* the reference at an occurrence
ReferenceAt(mc, o) ==
  IF o[2] = "link" THEN mc.files[o[1]].links[o[3]]
  ELSE mc.files[o[1]].embeds[o[3]]

\* text without its anchor and its display text: what stands before the
\* first # or |
Cleaned(text) ==
  IF \A i \in DOMAIN text : text[i] \notin {"#", "|"} THEN text
  ELSE SubSeq(text, 1,
              (CHOOSE i \in DOMAIN text :
                 /\ text[i] \in {"#", "|"}
                 /\ \A j \in 1..(i - 1) : text[j] \notin {"#", "|"}) - 1)

\* what the cleaned text of an occurrence resolves to, 0 for no target
TargetOf(mc, o) ==
  IF Cleaned(ReferenceAt(mc, o).link) \in DOMAIN mc.dest
  THEN mc.dest[Cleaned(ReferenceAt(mc, o).link)]
  ELSE 0

\* what tells an occurrence in a list of LinkInfo: source, text and line
KeyOf(sourceFile, linkText, line) ==
  [sourceFile |-> sourceFile, linkText |-> linkText, line |-> line]

OccurrenceKey(mc, o) ==
  KeyOf(o[1], ReferenceAt(mc, o).link, ReferenceAt(mc, o).line)

\* the number of entries of list for the occurrences of key
Listed(list, key) ==
  Cardinality({i \in DOMAIN list :
                 KeyOf(list[i].sourceFile, list[i].linkText, list[i].line)
                   = key})

\* the occurrences of key that resolve to no target
Unresolved(ls, mc, key) ==
  {o \in Occurrences(ls, mc) :
     OccurrenceKey(mc, o) = key /\ TargetOf(mc, o) = 0}

\* the occurrences of key that resolve to a target the vault does not list
Broken(ls, mc, key) ==
  {o \in Occurrences(ls, mc) :
     /\ OccurrenceKey(mc, o) = key
     /\ TargetOf(mc, o) # 0
     /\ TargetOf(mc, o) \notin ls}

\* every entry of list stands for an occurrence
OfOccurrences(ls, mc, list) ==
  \A i \in DOMAIN list :
    \E o \in Occurrences(ls, mc) :
      OccurrenceKey(mc, o)
        = KeyOf(list[i].sourceFile, list[i].linkText, list[i].line)

\* C19: validateAllLinks lists in unresolvedLinks exactly the link and embed
\* occurrences whose cleaned text resolves to no target, and in brokenLinks
\* exactly those that resolve to a target the vault does not list, each once;
\* so none is in both and one whose target exists is in neither
C19_Classification ==
  links.op = "validateAllLinks" =>
    /\ OfOccurrences(listing, metadataCache, links.validation.unresolvedLinks)
    /\ OfOccurrences(listing, metadataCache, links.validation.brokenLinks)
    /\ \A o \in Occurrences(listing, metadataCache) :
         /\ Listed(links.validation.unresolvedLinks,
                   OccurrenceKey(metadataCache, o))
              = Cardinality(Unresolved(listing, metadataCache,
                                       OccurrenceKey(metadataCache, o)))
         /\ Listed(links.validation.brokenLinks,
                   OccurrenceKey(metadataCache, o))
              = Cardinality(Broken(listing, metadataCache,
                                   OccurrenceKey(metadataCache, o)))

\* a validation with an unresolved occurrence, a broken one whose text has
\* an anchor, and one whose target exists
C19_Witness ==
  /\ links.op = "validateAllLinks"
  /\ Len(links.validation.unresolvedLinks) > 0
  /\ \E i \in DOMAIN links.validation.brokenLinks :
       links.validation.brokenLinks[i].linkText = TextAh
  /\ \E o \in Occurrences(listing, metadataCache) :
       TargetOf(metadataCache, o) \in listing

\* the occurrences of other documents that resolve to f
Incoming(ls, mc, f) ==
  {o \in Occurrences(ls, mc) : o[1] # f /\ TargetOf(mc, o) = f}

\* the documents getOrphanedNotes returned
Orphaned == {links.orphaned[i] : i \in DOMAIN links.orphaned}

\* C20: getOrphanedNotes returns exactly the documents of the vault with no
\* link or embed occurrence of their own and no occurrence in another
\* document that resolves to them, each once
C20_Orphans ==
  links.op = "getOrphanedNotes" =>
    /\ Orphaned = {f \in listing \cap MarkdownDocs :
                     /\ OccurrencesOf(metadataCache, f) = {}
                     /\ Incoming(listing, metadataCache, f) = {}}
    /\ Len(links.orphaned) = Cardinality(Orphaned)

\* an orphan is returned next to a document left out for its embed alone and
\* a document left out for an incoming link alone
C20_Witness ==
  /\ links.op = "getOrphanedNotes"
  /\ Orphaned # {}
  /\ \E f \in (listing \cap MarkdownDocs) \ Orphaned :
       /\ metadataCache.files[f].links = <<>>
       /\ metadataCache.files[f].embeds # <<>>
  /\ \E f \in (listing \cap MarkdownDocs) \ Orphaned :
       /\ OccurrencesOf(metadataCache, f) = {}
       /\ Incoming(listing, metadataCache, f) # {}

\* the occurrences of f that resolve to no target
Failing(mc, f) == {o \in OccurrencesOf(mc, f) : TargetOf(mc, o) = 0}

\* C21: getLinkStats(file) returns as outgoing the number of link and embed
\* occurrences of the file, as unresolved the number of those whose
\* resolution fails, and as incoming the number of occurrences of the other
\* documents that resolve to the file: one of the file that points to the
\* file itself counts in outgoing and not in incoming
C21_LinkStats ==
  links.op = "getLinkStats" =>
    /\ links.stats.outgoing
         = Cardinality(OccurrencesOf(metadataCache, links.file))
    /\ links.stats.unresolved
         = Cardinality(Failing(metadataCache, links.file))
    /\ links.stats.unresolved <= links.stats.outgoing
    /\ links.stats.incoming
         = Cardinality(Incoming(listing, metadataCache, links.file))

\* the statistics of a file with a link to itself, an unresolved embed and
\* a link from another document
C21_Witness ==
  /\ links.op = "getLinkStats"
  /\ \E o \in OccurrencesOf(metadataCache, links.file) :
       TargetOf(metadataCache, o) = links.file
  /\ links.stats.unresolved > 0
  /\ links.stats.unresolved < links.stats.outgoing
  /\ links.stats.incoming > 0

---------------------------------------------------------------------------
(* Properties of the navigation                                            *)

\* the sequence of note f, computed from the vault as it is
Fresh(f) == ComputeSequence(Tables, notes, f, settings.customPatterns)

\* the last step was the navigation event from a note that is the i-th of
\* the n notes of its sequence
NavigatedFrom(event, i, n) ==
  /\ seq.event = event
  /\ seq.file # 0
  /\ Fresh(seq.file).ok
  /\ Fresh(seq.file).currentIndex + 1 = i
  /\ Len(Fresh(seq.file).files) = n

\* what C23 says of a navigation from the end of a sequence that should go
\* to the note wrap when circularNavigation is on
Wraps(wrap) ==
  IF settings.circularNavigation
  THEN seq.returned = "true" /\ seq.opened = wrap
  ELSE seq.returned = "false" /\ seq.opened = 0

\* C23: navigateNext from the last note of a sequence opens the first note
\* when circularNavigation is on, and returns false and opens no file when
\* it is off; navigatePrevious from the first note opens the last note, or
\* returns false and opens no file
C23_CircularNavigation ==
  /\ (\E n \in 1..MaxNotes : NavigatedFrom("next", n, n)) =>
       Wraps(Fresh(seq.file).files[1])
  /\ (\E n \in 1..MaxNotes : NavigatedFrom("previous", 1, n)) =>
       Wraps(Fresh(seq.file).files[Len(Fresh(seq.file).files)])

\* C23 where detectSequence computed the sequence instead of taking it from
\* the cache
C23_Computed ==
  (seq.called /\ ~seq.hit) => C23_CircularNavigation

\* a navigation that wrapped around, on a sequence that was computed
C23_ComputedWitness ==
  /\ seq.called
  /\ ~seq.hit
  /\ settings.circularNavigation
  /\ \E n \in 1..MaxNotes : NavigatedFrom("next", n, n)
  /\ seq.opened = Fresh(seq.file).files[1]

\* C26: a SequenceInfo that detectSequence returns lists only notes the
\* vault holds at the time of the call and is what a computation from the
\* vault as it is returns, whatever create, rename and delete events came
\* before
C26_NeverStale ==
  seq.called =>
    /\ \A f \in SeqFiles(seq.info) : notes[f].st = "live"
    /\ seq.info = Fresh(seq.file)

\* no note of the vault was deleted
NoneGone == \A f \in NoteIds : notes[f].st # "gone"

\* the step is the navigation back right after the navigation there, which
\* opened a note, with circularNavigation off and no note deleted
ThereAndBack(there, back) ==
  /\ seq.event = there
  /\ seq.returned = "true"
  /\ seq.opened # 0
  /\ seq'.event = back
  /\ ~settings.circularNavigation
  /\ NoneGone
  /\ UNCHANGED <<notes, settings>>

\* C27: with circularNavigation off and the vault unchanged, navigatePrevious
\* from the note that navigateNext opened opens the note navigateNext came
\* from, and navigateNext from the note that navigatePrevious opened opens
\* the note navigatePrevious came from
C27_Inverse ==
  [][/\ ThereAndBack("next", "previous") => seq'.opened = seq.file
     /\ ThereAndBack("previous", "next") => seq'.opened = seq.file]_vars

---------------------------------------------------------------------------
(* Properties of the comparator                                            *)

\* C22: naturalSort(a, b) is the negative of naturalSort(b, a), so the two
\* never have the same sign but 0, and naturalSort(a, a) is 0
C22_Antisymmetric ==
  sorter.called =>
    /\ sorter.ab = -sorter.ba
    /\ ~(sorter.ab > 0 /\ sorter.ba > 0)
    /\ ~(sorter.ab < 0 /\ sorter.ba < 0)
    /\ (sorter.a = sorter.b => sorter.ab = 0)

\* two texts of which one is the other with a part more, told apart
C22_Witness ==
  /\ sorter.called
  /\ sorter.a = <<"N", "2">>
  /\ sorter.b = NameN2
  /\ sorter.ab < 0
  /\ sorter.ba > 0

\* the notes f and g have the same ordering key in a sequence of the type
Tied(type, f, g) ==
  IF type = "date"
  THEN parsedDate(Tables, notes, f).time = parsedDate(Tables, notes, g).time
  ELSE IF type = "numeric"
  THEN parsedNumeric(Tables, notes, f).number
         = parsedNumeric(Tables, notes, g).number
  ELSE CompareTable[notes[f].name, notes[g].name] = 0

\* the notes f and g are siblings with the shape and prefix of a numbered
\* title and the same number
SameNumber(f, g) ==
  /\ f # g
  /\ f \in SamePrefix(notes, g)
  /\ g \in SamePrefix(notes, f)
  /\ Tied("numeric", f, g)

\* C25: two notes of a computed sequence that have the same ordering key
\* are both in the list, in the order of the locale comparison of their
\* file names, whatever the order in which the host enumerates the files
C25_TiesByName ==
  (seq.called /\ ~seq.hit /\ seq.info.ok) =>
    /\ \A g \in NoteIds :
         (seq.info.type = "numeric" /\ SameNumber(seq.file, g)) =>
           g \in SeqFiles(seq.info)
    /\ \A i \in DOMAIN seq.info.files : \A j \in DOMAIN seq.info.files :
         (i < j /\ Tied(seq.info.type, seq.info.files[i], seq.info.files[j]))
           => localeCompare(notes[seq.info.files[i]].name,
                            notes[seq.info.files[j]].name) < 0

\* the ties of a computed sequence are both in its list
C25_TiesKept ==
  (seq.called /\ ~seq.hit /\ seq.info.ok) =>
    \A g \in NoteIds :
      (seq.info.type = "numeric" /\ SameNumber(seq.file, g)) =>
        g \in SeqFiles(seq.info)

---------------------------------------------------------------------------
(* Properties of the undo entries                                          *)

\* the documents whose content the last call changed
WrittenBy == {f \in Files : vault[f] # pre.vault[f]}

\* the entry on top of the undo stack
LastEntry == undoStack[Len(undoStack)]

\* the stack is the stack before the call with one entry pushed (and the
\* oldest dropped when that makes more than UndoLimit)
OnePushed ==
  /\ undoStack # <<>>
  /\ \/ undoStack = Append(pre.undoStack, LastEntry)
     \/ /\ Len(pre.undoStack) = UndoLimit
        /\ undoStack = Tail(Append(pre.undoStack, LastEntry))

\* C24: a batchReplaceLink that is no dry run pushes one undo entry when it
\* wrote a document and none when it wrote none; the entry holds one
\* operation for each document it wrote, with the content before and after
\* the batch, and none for a document whose read or write failed or whose
\* content did not change
C24_OneEntry ==
  (call.op = "batchReplaceLink" /\ ~call.dryRun) =>
    IF WrittenBy = {}
    THEN undoStack = pre.undoStack
    ELSE /\ OnePushed
         /\ Len(LastEntry.operations) = Cardinality(WrittenBy)
         /\ \A f \in WrittenBy :
              \E i \in DOMAIN LastEntry.operations :
                LastEntry.operations[i] =
                  [file |-> f, oldContent |-> pre.vault[f],
                   newContent |-> vault[f]]
         /\ \A i \in DOMAIN LastEntry.operations :
              /\ call.fail[LastEntry.operations[i].file] = "ok"
              /\ LastEntry.operations[i].oldContent
                   # LastEntry.operations[i].newContent

\* a batch with a failed write and a document written: the entry holds the
\* written document only
C24_Witness ==
  /\ call.op = "batchReplaceLink" /\ ~call.dryRun
  /\ \E f \in Files : call.fail[f] = "write"
  /\ WrittenBy # {}
  /\ call.failed = 1
  /\ OnePushed
  /\ Len(LastEntry.operations) = Cardinality(WrittenBy)

\* a batch that changed no document while the stack holds an entry
C24_NoneWitness ==
  /\ call.op = "batchReplaceLink" /\ ~call.dryRun
  /\ WrittenBy = {}
  /\ pre.undoStack # <<>>
  /\ undoStack = pre.undoStack

\* C29: when undoLastOperation pops an entry and a document of the entry
\* does not hold the content the batch wrote, the undo leaves the later
\* content of that document in place
C29_KeepsLaterContent ==
  (call.op = "undoLastOperation" /\ call.popped # <<>>) =>
    \A i \in DOMAIN call.popped[1].operations :
      LET op == call.popped[1].operations[i] IN
      pre.vault[op.file] # op.newContent =>
        vault[op.file] = pre.vault[op.file]

\* an undo of a batch none of whose documents was changed since: each
\* document goes back to its prior content
C29_Untouched ==
  (call.op = "undoLastOperation" /\ call.popped # <<>> /\ call.clean) =>
    \A i \in DOMAIN call.popped[1].operations :
      LET op == call.popped[1].operations[i] IN
      vault[op.file] = op.oldContent

---------------------------------------------------------------------------
(* Properties of interleaved calls                                         *)

\* the documents after every entry of the stack is undone, the most recent
\* first
RECURSIVE UndoEvery(_, _)
UndoEvery(v, stack) ==
  IF stack = <<>> THEN v
  ELSE UndoEvery(UndoOutcome(v, stack, 0).vault,
                 SubSeq(stack, 1, Len(stack) - 1))

\* C28: when calls of batchReplaceLink and undoLastOperation have run, also
\* suspended inside one another, and all have completed, the undo of every
\* entry left on the stack gives each document the content it had before
\* the earliest batch
C28_UndoRestores ==
  tasks.flight = <<>> => UndoEvery(vault, undoStack) = tasks.origin

\* the same of calls that ran one after the other
C28_Serial ==
  (tasks.flight = <<>> /\ ~tasks.overlap) =>
    UndoEvery(vault, undoStack) = tasks.origin

\* two batches have run one after the other and left two entries
C28_SerialWitness ==
  /\ tasks.flight = <<>> /\ ~tasks.overlap
  /\ Len(undoStack) = 2
  /\ vault # tasks.origin

---------------------------------------------------------------------------
(* Properties of the inserter                                              *)

IsPrefix(part, text) ==
  Len(part) <= Len(text) /\ SubSeq(text, 1, Len(part)) = part

\* C30: insertSequenceLinks and updateAllSequenceLinks change the trailing
\* navigation section only: the content a note had before any navigation
\* section was appended is still there, also when it holds other rule lines
\* followed by text with wiki links
C30_KeepsContent ==
  \A f \in NoteIds :
    inserter.docs # <<>> =>
      \/ inserter.docs[f] = inserter.origin[f]
      \/ IsPrefix(trim(inserter.origin[f]) \o NavigationRule,
                  inserter.docs[f])

\* the same of notes whose content has no rule line
C30_KeepsPlain ==
  \A f \in NoteIds :
    (inserter.docs # <<>>
       /\ \A i \in DOMAIN split(inserter.origin[f]) :
            trim(split(inserter.origin[f])[i]) \notin RuleLines) =>
      \/ inserter.docs[f] = inserter.origin[f]
      \/ IsPrefix(trim(inserter.origin[f]) \o NavigationRule,
                  inserter.docs[f])

\* a second insertSequenceLinks on the same file with the same neighbours
\* leaves the content as the first left it
C30_Idempotent ==
  [][(/\ inserter.op = "insert" /\ inserter.ret
      /\ inserter'.op = "insert" /\ inserter'.ret
      /\ inserter'.file = inserter.file
      /\ inserter'.prev = inserter.prev
      /\ inserter'.next = inserter.next)
     => inserter'.docs = inserter.docs]_vars

=============================================================================
